---- MODULE Spec2Model ----
(***************************************************************************)
(* Model of the container-codes HTTP edge server: the static asset         *)
(* resolver (handlers/static_files.rs), the correlation-id middleware      *)
(* (middleware/request_id.rs), the JSON API handlers (handlers/*.rs) and   *)
(* the API envelope (shared/src/types.rs).                                 *)
(*                                                                         *)
(* Strings are sequences of one-character strings, so that the string and  *)
(* path functions of the code (trim_start_matches, contains, join,         *)
(* starts_with, components) are computed as the code computes them.        *)
(* Paths are Unix paths ('/' is the only separator).                       *)
(***************************************************************************)
EXTENDS Integers, Sequences, FiniteSets, TLC

VARIABLES
    cfg,        \* AppState.config: the configuration view, fixed after start
    fs,         \* the file system: location -> entry
    phase,      \* "idle": no request in flight; "responded": response built
    req,        \* the request being handled (NoReq when idle)
    resp,       \* the response built for req (NoResp when idle)
    trace,      \* file-system operations serve_static made for req
    filesRead,  \* every location whose bytes the static resolver has read
    mw,         \* the correlation-id middleware's view of one request
    envelope,   \* the last ApiResponse built
    api,        \* the last API handler call: its input, result and response
    san,        \* the last application of sanitize_filename
    stored,     \* uploads that succeeded: stored name -> the bytes uploaded last
    race,       \* two upload requests in flight at once, step by step
    boot,       \* the configuration file being loaded and validated at startup
    conn,       \* one request on its way through the middleware stack and router
    vcn,        \* the last application of validate_container_name
    page,       \* the last PaginatedResponse built
    hist        \* the health requests answered so far: probe outcome and report

staticVars == <<phase, req, resp, trace, filesRead>>

auxVars == <<san, stored, race, boot>>

lateVars == <<conn, vcn, page, hist>>

vars == <<cfg, fs, phase, req, resp, trace, filesRead, mw, envelope, api,
          san, stored, race, boot, conn, vcn, page, hist>>

NoSan == [applied |-> FALSE]
NoStored == <<>>
NoRace == [started |-> FALSE]
NoBoot == [loaded |-> FALSE]
NoConn == [open |-> FALSE]
NoVcn == [applied |-> FALSE]
NoPage == [built |-> FALSE]
NoHist == <<>>

\* none of the other machines of this module has moved
AuxIdle ==
    /\ san = NoSan /\ stored = NoStored /\ race = NoRace /\ boot = NoBoot
    /\ conn = NoConn /\ vcn = NoVcn /\ page = NoPage /\ hist = NoHist

(***************************************************************************)
(* Bounds                                                                  *)
(***************************************************************************)
\* longest request path, counted in characters after the leading '/'
MaxPathLen == 4

\* longest x-request-id header value, in bytes
MaxHeaderLen == 2

\* longest path given to the download and info routes, in tokens
MaxApiPathLen == 3
MaxNameLen == 3

SeqsUpTo(S, n) == UNION {[1..k -> S] : k \in 0..n}

(***************************************************************************)
(* Strings and std::path on Unix                                           *)
(***************************************************************************)
\* characters a request path is made of: separator, dot, one letter
PathChars == {"/", ".", "i"}

\* Uri::path(): always begins with '/'
UriPaths == {<<"/">> \o r : r \in SeqsUpTo(PathChars, MaxPathLen)}

\* (variant that drops one leading '/' only)
TrimStartOne(s) == IF s # <<>> /\ Head(s) = "/" THEN Tail(s) ELSE s

RECURSIVE TrimStartMatches(_)
\* str::trim_start_matches('/'): drops every leading '/'
TrimStartMatches(s) ==
    IF s # <<>> /\ Head(s) = "/" THEN TrimStartMatches(Tail(s)) ELSE s

\* str::contains(c)
Contains(s, c) == \E k \in 1..Len(s) : s[k] = c

RECURSIVE SplitFrom(_, _, _)
SplitFrom(s, k, cur) ==
    IF k > Len(s) THEN <<cur>>
    ELSE IF s[k] = "/" THEN <<cur>> \o SplitFrom(s, k + 1, <<>>)
    ELSE SplitFrom(s, k + 1, Append(cur, s[k]))

\* the segments of s between '/' characters (empty segments included)
Split(s) == SplitFrom(s, 1, <<>>)

IsAbsolute(s) == s # <<>> /\ s[1] = "/"

RootDir == <<"/">>
CurDir == <<".">>
ParentDir == <<".", ".">>

RECURSIVE KeepComponents(_, _, _)
KeepComponents(segs, k, abs) ==
    IF k > Len(segs) THEN <<>>
    ELSE IF segs[k] = <<>> \/ (segs[k] = CurDir /\ (k > 1 \/ abs))
         THEN KeepComponents(segs, k + 1, abs)
         ELSE <<segs[k]>> \o KeepComponents(segs, k + 1, abs)

\* Path::components(): RootDir for a leading '/', empty segments and
\* non-leading "." segments dropped, ".." kept as ParentDir (not resolved)
Components(s) ==
    (IF IsAbsolute(s) THEN <<RootDir>> ELSE <<>>)
        \o KeepComponents(Split(s), 1, IsAbsolute(s))

\* Path::starts_with(base): whole components of base are a prefix
StartsWith(p, base) ==
    LET cp == Components(p)
        cb == Components(base)
    IN  Len(cb) <= Len(cp) /\ SubSeq(cp, 1, Len(cb)) = cb

\* Path::join / PathBuf::push: an absolute argument replaces the base
Join(base, p) ==
    IF IsAbsolute(p) THEN p
    ELSE IF base = <<>> \/ base[Len(base)] = "/" THEN base \o p
    ELSE base \o <<"/">> \o p

(***************************************************************************)
(* The file system                                                         *)
(***************************************************************************)
n_r == <<"r">>
n_i == <<"i">>
n_ii == <<"i", "i">>

LocFsRoot == <<>>
LocRoot == <<n_r>>              \* the static root directory, /r
LocOutside == <<n_i>>           \* /i, a file outside the static root
LocI == <<n_r, n_i>>            \* /r/i
LocII == <<n_r, n_ii>>          \* /r/ii

Locs == {LocFsRoot, LocRoot, LocOutside, LocI, LocII}

\* "locked": a regular file the server may stat but not read
Kinds == {"absent", "dir", "file", "locked"}

Entry(k, d) == [kind |-> k, data |-> d]

MkFs(ki, kii) ==
    [l \in Locs |->
        CASE l = LocFsRoot  -> Entry("dir", "")
          [] l = LocRoot    -> Entry("dir", "")
          [] l = LocOutside -> Entry("file", "bytes_outside")
          [] l = LocI       -> Entry(ki, IF ki = "dir" THEN "" ELSE "bytes_i")
          [] l = LocII      -> Entry(kii, "bytes_ii")]

Exists(f, l) == l \in DOMAIN f /\ f[l].kind # "absent"

Parent(l) == IF l = <<>> THEN <<>> ELSE SubSeq(l, 1, Len(l) - 1)

NoEnt == [ok |-> FALSE, loc |-> <<>>]

RECURSIVE Walk(_, _, _)
\* path resolution by the kernel: every step needs a directory to step from;
\* ".." steps to the parent, a name to the child of that name
Walk(f, cur, segs) ==
    IF segs = <<>> THEN [ok |-> TRUE, loc |-> cur]
    ELSE LET h == Head(segs) IN
         IF f[cur].kind # "dir" THEN NoEnt
         ELSE IF h = <<>> \/ h = CurDir THEN Walk(f, cur, Tail(segs))
         ELSE IF h = ParentDir THEN Walk(f, Parent(cur), Tail(segs))
         ELSE IF Exists(f, Append(cur, h)) THEN Walk(f, Append(cur, h), Tail(segs))
         ELSE NoEnt

\* the location a path string names, if any (relative paths start at /)
Resolve(f, p) == IF p = <<>> THEN NoEnt ELSE Walk(f, LocFsRoot, Split(p))

\* tokio::fs::read
fs_read(f, p) ==
    LET r == Resolve(f, p) IN
    IF r.ok /\ f[r.loc].kind = "file"
    THEN [ok |-> TRUE, loc |-> r.loc, data |-> f[r.loc].data]
    ELSE [ok |-> FALSE, loc |-> r.loc, data |-> ""]

\* tokio::fs::metadata(..).is_ok()
fs_metadata_ok(f, p) == Resolve(f, p).ok

IsPrefix(a, b) == Len(a) <= Len(b) /\ SubSeq(b, 1, Len(a)) = a

(***************************************************************************)
(* Configuration view                                                      *)
(***************************************************************************)
\* StaticConfig.root, as the string "/r"
StaticRoot == <<"/", "r">>

\* StaticConfig.index_files: the orders the model is run with
IndexFileLists == {<<n_i, n_ii>>, <<n_ii, n_i>>}

\* header values of the configuration: StaticConfig.cache_control and
\* SecurityConfig.frame_options, as strings a header can be built from
CacheControl == <<"a">>
FrameOptions == <<"a", "-">>

\* the header settings serve_file reads, with values that make headers
HeaderSettings ==
    [cache_control : {CacheControl}, etag : {TRUE}, security_headers : {TRUE},
     frame_options : {FrameOptions}, xss_protection : {TRUE}]

\* a configuration view: r with the header settings h
WithHeaders(r, h) ==
    [static_enabled |-> r.static_enabled, root |-> r.root,
     index_files |-> r.index_files, database |-> r.database,
     cache_control |-> h.cache_control, etag |-> h.etag,
     security_headers |-> h.security_headers,
     frame_options |-> h.frame_options, xss_protection |-> h.xss_protection]

\* AppState: the configuration and whether a database handle was built
Configs ==
    {WithHeaders(r, h) :
        r \in [static_enabled : BOOLEAN, root : {StaticRoot},
               index_files : IndexFileLists, database : {TRUE}],
        h \in HeaderSettings}

(***************************************************************************)
(* Static asset resolver: handlers/static_files.rs                         *)
(***************************************************************************)
Response(st, b) == [status |-> st, body |-> b]

not_found_response == Response(404, "<h1>404 Not Found</h1>")

forbidden_response == Response(403, "<h1>403 Forbidden</h1>")

NoTrace == [reads |-> <<>>, probes |-> <<>>, searches |-> 0]

RECURSIVE FindIndexFrom(_, _, _, _)
FindIndexFrom(f, static_root, index_files, k) ==
    IF k > Len(index_files)
    THEN [found |-> FALSE, path |-> <<>>, probes |-> <<>>]
    ELSE LET index_path == Join(static_root, index_files[k]) IN
         IF fs_metadata_ok(f, index_path)
         THEN [found |-> TRUE, path |-> index_path, probes |-> <<index_path>>]
         ELSE LET rest == FindIndexFrom(f, static_root, index_files, k + 1)
              IN  [rest EXCEPT !.probes = <<index_path>> \o @]

RECURSIVE FindIndexBack(_, _, _, _)
FindIndexBack(f, static_root, index_files, k) ==
    IF k < 1
    THEN [found |-> FALSE, path |-> <<>>, probes |-> <<>>]
    ELSE LET index_path == Join(static_root, index_files[k]) IN
         IF fs_metadata_ok(f, index_path)
         THEN [found |-> TRUE, path |-> index_path, probes |-> <<index_path>>]
         ELSE LET rest == FindIndexBack(f, static_root, index_files, k - 1)
              IN  [rest EXCEPT !.probes = <<index_path>> \o @]

\* mutant of find_index_file: searches the list from its end
find_index_file_last(f, static_root, index_files) ==
    FindIndexBack(f, static_root, index_files, Len(index_files))

\* the first configured index file whose metadata can be read, with the
\* metadata probes made on the way
find_index_file(f, static_root, index_files) ==
    FindIndexFrom(f, static_root, index_files, 1)

is_spa_route(path) == ~Contains(path, ".") /\ path # <<>>

\* Option
None == [some |-> FALSE]
Some(x) == [some |-> TRUE, value |-> x]

\* Path::file_name: the last component if it is a normal one
\* (The: the element of a set of one element; a value computed once is
\* bound as the element of such a set)
The(S) == CHOOSE x \in S : TRUE

file_name_of(p) ==
    The({IF cs # <<>> /\ cs[Len(cs)] \notin {RootDir, CurDir, ParentDir}
         THEN Some(cs[Len(cs)]) ELSE None : cs \in {Components(p)}})

\* the position of the last "." of a name, 0 if it has none
LastDot(n) ==
    LET ks == {k \in 1..Len(n) : n[k] = "."}
    IN  IF ks = {} THEN 0 ELSE CHOOSE k \in ks : \A j \in ks : j <= k

\* Path::extension: what follows the last "." of the file name, unless the
\* name has no "." or only a leading one
extension(p) ==
    The({IF ~fname.some THEN None
         ELSE The({IF k <= 1 THEN None
                   ELSE Some(SubSeq(fname.value, k + 1, Len(fname.value))) :
                       k \in {LastDot(fname.value)}}) :
             fname \in {file_name_of(p)}})

\* mime_guess::from_path(..).first_or_octet_stream(), for the extensions of
\* the model
mime_from_path(p) ==
    The({IF ext.some /\ ext.value = <<"t", "x", "t">> THEN "text/plain"
         ELSE "application/octet-stream" : ext \in {extension(p)}})

\* the request task panicked: the connection is closed without a response
task_panicked == Response(0, "panicked")

\* a character HeaderValue rejects: a control character other than tab
IsControlChar(ch) == ch \in {"\n"}

\* HeaderValue::try_from(&String).is_ok()
header_value_ok(str) == \A k \in 1..Len(str) : ~IsControlChar(str[k])

\* response_builder.body(..) is Ok: every header added to the builder had a
\* valid value (Content-Type, ETag and the fixed values always have)
builder_ok(c) ==
    /\ header_value_ok(c.cache_control)
    /\ c.security_headers => header_value_ok(c.frame_options)

\* DefaultHasher::new(), contents.hash(..), finish(): SipHash with fixed
\* keys of the length and the bytes of the contents, nothing else
DefaultHasher_finish(contents) == [siphash |-> contents]

\* generate_etag: the hash in decimal between double quotes
generate_etag(contents) == <<"\"", DefaultHasher_finish(contents), "\"">>

\* headers are a set of pairs of a name and a value
\* one header
Header(name, value) == {<<name, value>>}

\* no header
NoHeaders == {}

\* (variant that adds X-XSS-Protection whether or not the security headers
\* are enabled)
response_headers_xss_apart(c, contents, file_path) ==
    Header("content-type", mime_from_path(file_path))
    \cup (IF c.etag THEN Header("etag", generate_etag(contents)) ELSE NoHeaders)
    \cup Header("cache-control", c.cache_control)
    \cup (IF c.security_headers
        THEN Header("x-content-type-options", "nosniff")
             \cup Header("x-frame-options", c.frame_options)
        ELSE NoHeaders)
    \cup (IF c.xss_protection
        THEN Header("x-xss-protection", "1; mode=block")
        ELSE NoHeaders)

\* the headers serve_file adds to the response builder
response_headers(c, contents, file_path) ==
    Header("content-type", mime_from_path(file_path))
    \cup (IF c.etag THEN Header("etag", generate_etag(contents)) ELSE NoHeaders)
    \cup Header("cache-control", c.cache_control)
    \cup (IF c.security_headers
        THEN Header("x-content-type-options", "nosniff")
             \cup Header("x-frame-options", c.frame_options)
             \cup (IF c.xss_protection
                 THEN Header("x-xss-protection", "1; mode=block")
                 ELSE NoHeaders)
        ELSE NoHeaders)

\* one fs::read of file_path; Err if it fails, else Ok(200 with the bytes),
\* built by response_builder.body(..).unwrap(): a panic if a header value
\* was invalid. In that case ok is TRUE and response is task_panicked, as
\* nothing serve_static does after serve_file runs.
serve_file(c, f, file_path) ==
    LET rd == fs_read(f, file_path) IN
    [ok       |-> rd.ok,
     read     |-> [path |-> file_path, ok |-> rd.ok, loc |-> rd.loc],
     response |-> IF ~rd.ok THEN not_found_response
                  ELSE IF builder_ok(c)
                  THEN [status |-> 200, body |-> rd.data,
                        headers |-> response_headers(c, rd.data, file_path)]
                  ELSE task_panicked]

\* mutant of spa_fallback: when the index file found cannot be read, the
\* fallback is entered again for the rest of the index-file list
spa_fallback_again(c, f) ==
    LET idx == find_index_file(f, c.root, c.index_files) IN
    IF idx.found
    THEN LET sf == serve_file(c, f, idx.path) IN
         IF sf.ok
         THEN [response |-> sf.response,
               reads |-> <<sf.read>>, probes |-> idx.probes, searches |-> 1]
         ELSE LET again == find_index_file(f, c.root, Tail(c.index_files))
                  sf2 == serve_file(c, f, again.path)
              IN  [response |-> IF again.found /\ sf2.ok THEN sf2.response
                                ELSE not_found_response,
                   reads |-> <<sf.read>> \o (IF again.found THEN <<sf2.read>> ELSE <<>>),
                   probes |-> idx.probes \o again.probes, searches |-> 2]
    ELSE [response |-> not_found_response,
          reads |-> <<>>, probes |-> idx.probes, searches |-> 1]

\* the Err arm of serve_static for a SPA route: one index search, one read
spa_fallback(c, f) ==
    LET idx == find_index_file(f, c.root, c.index_files) IN
    IF idx.found
    THEN LET sf == serve_file(c, f, idx.path) IN
         [response |-> IF sf.ok THEN sf.response ELSE not_found_response,
          reads |-> <<sf.read>>, probes |-> idx.probes, searches |-> 1]
    ELSE [response |-> not_found_response,
          reads |-> <<>>, probes |-> idx.probes, searches |-> 1]

\* the containment check of serve_static
path_is_contained(requested_path, static_root) ==
    StartsWith(requested_path, static_root)

\* serve_file(&file_path) and what follows it in serve_static; t0 is the
\* trace of the resolution that produced file_path
serve_resolved(c, f, path, file_path, t0) ==
    LET sf == serve_file(c, f, file_path) IN
    IF sf.ok
    THEN [response |-> sf.response,
          trace |-> [t0 EXCEPT !.reads = <<sf.read>>]]
    ELSE IF is_spa_route(path)
    THEN LET fb == spa_fallback(c, f) IN
         [response |-> fb.response,
          trace |-> [reads |-> <<sf.read>> \o fb.reads,
                     probes |-> t0.probes \o fb.probes,
                     searches |-> t0.searches + fb.searches]]
    ELSE [response |-> not_found_response,
          trace |-> [t0 EXCEPT !.reads = <<sf.read>>]]

\* mutant of serve_static: the enabled flag is not looked at
serve_static_unconditional(c, f, uri) ==
    LET path == TrimStartMatches(uri)
        static_root == c.root
    IN
    IF path = <<>>
    THEN LET idx == find_index_file(f, static_root, c.index_files)
             t0 == [reads |-> <<>>, probes |-> idx.probes, searches |-> 1]
         IN  IF idx.found
             THEN serve_resolved(c, f, path, idx.path, t0)
             ELSE [response |-> not_found_response, trace |-> t0]
    ELSE LET requested_path == Join(static_root, path) IN
         IF ~path_is_contained(requested_path, static_root)
         THEN [response |-> forbidden_response, trace |-> NoTrace]
         ELSE serve_resolved(c, f, path, requested_path, NoTrace)

serve_static(c, f, uri) ==
    IF ~c.static_enabled
    THEN [response |-> not_found_response, trace |-> NoTrace]
    ELSE LET path == TrimStartMatches(uri)
             static_root == c.root
         IN
         IF path = <<>>
         THEN LET idx == find_index_file(f, static_root, c.index_files)
                  t0 == [reads |-> <<>>, probes |-> idx.probes, searches |-> 1]
              IN  IF idx.found
                  THEN serve_resolved(c, f, path, idx.path, t0)
                  ELSE [response |-> not_found_response, trace |-> t0]
         ELSE LET requested_path == Join(static_root, path) IN
              IF ~path_is_contained(requested_path, static_root)
              THEN [response |-> forbidden_response, trace |-> NoTrace]
              ELSE serve_resolved(c, f, path, requested_path, NoTrace)

(***************************************************************************)
(* Correlation-id middleware: middleware/request_id.rs                     *)
(***************************************************************************)
\* A HeaderValue is a sequence of bytes, a String a sequence of characters.
\* bytes a header value is made of here: tab, '-', 'a' and 0xE9 (a byte
\* HeaderValue accepts and HeaderValue::to_str rejects)
HeaderBytes == {9, 45, 97, 233}

\* the x-request-id header is absent
NoHeader == <<0>>

HeaderValues == SeqsUpTo(HeaderBytes, MaxHeaderLen)

\* Uuid::new_v4().to_string(): hex digits and hyphens
UuidStrings == {<<"a", "-", "1">>, <<"1", "-", "a">>}

\* the ASCII characters of the model and their codes
AsciiChars == {"\t", "\n", "-", "1", "a"}

Ord(ch) ==
    CASE ch = "\t" -> 9 [] ch = "\n" -> 10 [] ch = "-" -> 45
      [] ch = "1" -> 49 [] ch = "a" -> 97

Chr(b) == CHOOSE ch \in AsciiChars : Ord(ch) = b

\* HeaderValue::to_str: Ok, with the bytes as characters, for visible ASCII
\* and tab only
to_str(v) ==
    LET ok == \A k \in 1..Len(v) : (v[k] >= 32 /\ v[k] < 127) \/ v[k] = 9 IN
    [ok  |-> ok,
     str |-> IF ok THEN [k \in 1..Len(v) |-> Chr(v[k])] ELSE <<>>]

\* HeaderValue::from_str: Ok, with the characters as bytes, unless one is a
\* control character other than tab
from_str(str) ==
    LET bytes == [k \in 1..Len(str) |-> Ord(str[k])]
        ok == \A k \in 1..Len(str) :
                  (bytes[k] >= 32 /\ bytes[k] # 127) \/ bytes[k] = 9
    IN  [ok |-> ok, value |-> IF ok THEN bytes ELSE <<>>]

\* mutant of request_id_select: the generated id is not set on the request
request_id_select_no_insert(incoming, uuid) ==
    IF incoming # NoHeader /\ to_str(incoming).ok
    THEN [panic |-> FALSE, request_id |-> to_str(incoming).str, header |-> incoming]
    ELSE [panic |-> FALSE, request_id |-> uuid, header |-> incoming]

\* RequestIdService::call up to self.inner.call(request): the id selected
\* and the x-request-id header the request carries downstream
request_id_select(incoming, uuid) ==
    IF incoming # NoHeader /\ to_str(incoming).ok
    THEN [panic |-> FALSE, request_id |-> to_str(incoming).str, header |-> incoming]
    ELSE LET hv == from_str(uuid) IN
         IF hv.ok /\ to_str(hv.value).ok
         THEN [panic |-> FALSE, request_id |-> to_str(hv.value).str, header |-> hv.value]
         ELSE [panic |-> TRUE, request_id |-> <<>>, header |-> incoming]

\* mutant of response_stamp: a header the handler set is kept
response_stamp_keep(handler_header, request_id) ==
    IF handler_header # NoHeader
    THEN [panic |-> FALSE, header |-> handler_header]
    ELSE [panic |-> ~from_str(request_id).ok, header |-> from_str(request_id).value]

\* the async block of RequestIdService::call: HeaderMap::insert replaces
\* whatever x-request-id the downstream response carries
response_stamp(handler_header, request_id) ==
    LET hv == from_str(request_id) IN
    IF hv.ok THEN [panic |-> FALSE, header |-> hv.value]
    ELSE [panic |-> TRUE, header |-> handler_header]

MwIdle ==
    [stage |-> "idle", incoming |-> NoHeader, request_id |-> <<>>,
     seen |-> NoHeader, handler |-> NoHeader, out |-> NoHeader]

\* a request enters the middleware, which selects its id and calls inner
MwCall(incoming, uuid) ==
    /\ mw.stage = "idle"
    /\ LET sel == request_id_select(incoming, uuid) IN
        mw' = [mw EXCEPT !.stage = IF sel.panic THEN "panicked" ELSE "called",
                         !.incoming = incoming,
                         !.request_id = sel.request_id,
                         !.seen = sel.header]
    /\ UNCHANGED <<lateVars, auxVars, cfg, fs, staticVars, envelope, api>>

\* the downstream service answers; its response may carry an x-request-id
MwInnerResponds(handler_header) ==
    /\ mw.stage = "called"
    /\ mw' = [mw EXCEPT !.stage = "answered", !.handler = handler_header]
    /\ UNCHANGED <<lateVars, auxVars, cfg, fs, staticVars, envelope, api>>

\* the middleware stamps the response
MwStamp ==
    /\ mw.stage = "answered"
    /\ LET st == response_stamp(mw.handler, mw.request_id) IN
        mw' = [mw EXCEPT !.stage = IF st.panic THEN "panicked" ELSE "stamped",
                         !.out = st.header]
    /\ UNCHANGED <<lateVars, auxVars, cfg, fs, staticVars, envelope, api>>

\* the stamped response leaves the server
MwDone ==
    /\ mw.stage = "stamped"
    /\ mw' = MwIdle
    /\ UNCHANGED <<lateVars, auxVars, cfg, fs, staticVars, envelope, api>>

(***************************************************************************)
(* The static resolver as a state machine                                  *)
(***************************************************************************)
NoReq == [uri |-> <<>>]
NoResp == Response(0, "")
NoEnvelope == [built |-> FALSE]
NoApi == [called |-> FALSE]

ReadLocs(t) == {t.reads[k].loc : k \in {j \in 1..Len(t.reads) : t.reads[j].ok}}

InitStatic ==
    /\ cfg \in Configs
    /\ fs \in {MkFs(ki, kii) : ki \in Kinds, kii \in {"absent", "file", "locked"}}
    /\ phase = "idle"
    /\ req = NoReq
    /\ resp = NoResp
    /\ trace = NoTrace
    /\ filesRead = {}
    /\ mw = MwIdle
    /\ envelope = NoEnvelope
    /\ api = NoApi
    /\ AuxIdle

\* the fallback route: one run of serve_static for a request path
ServeStatic(uri) ==
    /\ phase = "idle"
    /\ LET out == serve_static(cfg, fs, uri) IN
        /\ resp' = out.response
        /\ trace' = out.trace
        /\ filesRead' = filesRead \cup ReadLocs(out.trace)
    /\ req' = [uri |-> uri]
    /\ phase' = "responded"
    /\ UNCHANGED <<lateVars, auxVars, cfg, fs, mw, envelope, api>>

\* the response is sent and the request context dropped
Deliver ==
    /\ phase = "responded"
    /\ phase' = "idle"
    /\ req' = NoReq
    /\ resp' = NoResp
    /\ trace' = NoTrace
    /\ UNCHANGED <<lateVars, auxVars, cfg, fs, filesRead, mw, envelope, api>>

NextStatic ==
    \/ \E uri \in UriPaths : ServeStatic(uri)
    \/ Deliver

SpecStatic == InitStatic /\ [][NextStatic]_vars

(***************************************************************************)
(* Properties of the static resolver                                       *)
(***************************************************************************)
\* a request of the static resolver has been answered with the feature on
Handled == phase = "responded" /\ cfg.static_enabled

\* the relative path serve_static works on
ReqPath == TrimStartMatches(req.uri)

RootLoc == Resolve(fs, cfg.root).loc

HasParentSegment(p) == \E k \in 1..Len(Split(p)) : Split(p)[k] = ParentDir

FinalSegment(p) == Split(p)[Len(Split(p))]

\* the joined path names an existing entry that is not below the root
ResolvesOutsideRoot(p) ==
    LET r == Resolve(fs, Join(cfg.root, p))
    IN  r.ok /\ ~IsPrefix(RootLoc, r.loc)

\* the read of the directly resolved file was attempted and failed
DirectReadFailed ==
    Handled /\ ReqPath # <<>> /\ trace.reads # <<>> /\ ~trace.reads[1].ok

\* where the k-th configured index file lives
IndexLoc(k) == Append(RootLoc, cfg.index_files[k])

IndexLocs == {IndexLoc(k) : k \in 1..Len(cfg.index_files)}

\* position of the first configured index file that exists, 0 if none
FirstIndex ==
    LET ks == {k \in 1..Len(cfg.index_files) : Exists(fs, IndexLoc(k))}
    IN  IF ks = {} THEN 0 ELSE CHOOSE k \in ks : \A j \in ks : k <= j

\* C1: a request path with a ".." segment, or one that resolves outside the
\* static root, is answered 403 Forbidden and no file read is made for it.
C1_TraversalForbidden ==
    (Handled /\ (HasParentSegment(ReqPath) \/ ResolvesOutsideRoot(ReqPath)))
        => (resp.status = 403 /\ trace.reads = <<>>)

\* C2: every file the static resolver has read, over all requests so far,
\* lies below the static root.
C2_ReadsInsideRoot ==
    \A l \in filesRead : IsPrefix(RootLoc, l)

\* C3: after a failed direct read of a non-empty path, the index-file search
\* is retried exactly when the final segment of the path has no '.'; with a
\* '.' in the final segment the answer is 404 and nothing is searched.
C3_FallbackIffFinalSegmentDotless ==
    DirectReadFailed =>
        /\ (trace.searches > 0) <=> ~Contains(FinalSegment(ReqPath), ".")
        /\ Contains(FinalSegment(ReqPath), ".")
               => (resp.status = 404 /\ trace.searches = 0)

\* C4: for a path without '.' whose direct read failed, the index-file
\* search runs exactly once and at most one index file is read; a successful
\* index read gives 200 with that file's bytes, a search that finds nothing
\* or an index read that fails gives 404; nothing is searched or read after.
C4_FallbackOnce ==
    (DirectReadFailed /\ ~Contains(ReqPath, ".")) =>
        /\ trace.searches = 1
        /\ Len(trace.reads) \in {1, 2}
        /\ (Len(trace.reads) = 1) <=> (FirstIndex = 0)
        /\ IF Len(trace.reads) = 2 /\ trace.reads[2].ok
           THEN /\ trace.reads[2].loc \in IndexLocs
                /\ resp.status = 200 /\ resp.body = fs[trace.reads[2].loc].data
           ELSE resp.status = 404

\* C4 witness: a dotless route missed its file and was answered with the
\* index file found by the fallback.
C4_Witness ==
    /\ DirectReadFailed /\ ~Contains(ReqPath, ".")
    /\ Len(trace.reads) = 2 /\ resp.status = 200

\* C5 as stated: for the empty path the first configured index file that
\* exists is served, and 404 is answered when none exists.
C5_EmptyPathServesFirstExisting ==
    (Handled /\ ReqPath = <<>>) =>
        IF FirstIndex = 0 THEN resp.status = 404
        ELSE (resp.status = 200 /\ resp.body = fs[IndexLoc(FirstIndex)].data)

\* C5 amended: for the empty path only the first configured index file that
\* exists is read; it is served if that read succeeds and 404 is answered if
\* it fails or if no index file exists; a later index file is never served
\* while an earlier one exists.
C5_EmptyPathFirstExistingIfReadable ==
    (Handled /\ ReqPath = <<>>) =>
        IF FirstIndex = 0 THEN resp.status = 404 /\ trace.reads = <<>>
        ELSE /\ Len(trace.reads) = 1
             /\ trace.reads[1].path = Join(cfg.root, cfg.index_files[FirstIndex])
             /\ IF fs[IndexLoc(FirstIndex)].kind = "file"
                THEN (resp.status = 200 /\ resp.body = fs[IndexLoc(FirstIndex)].data)
                ELSE resp.status = 404

\* C5 witness: both index files exist and the empty path was answered with
\* the bytes of the one configured first.
C5_Witness ==
    /\ Handled /\ ReqPath = <<>> /\ resp.status = 200
    /\ \A k \in 1..Len(cfg.index_files) : Exists(fs, IndexLoc(k))
    /\ resp.body = fs[IndexLoc(1)].data

\* C20: with the static-file feature disabled serve_static answers 404 Not
\* Found for every request path and touches no file: no metadata probe, no
\* index search, no read.
C20_DisabledIsNotFound ==
    (phase = "responded" /\ ~cfg.static_enabled) =>
        /\ resp = not_found_response
        /\ trace = NoTrace
        /\ filesRead = {}

\* C20 witness: with the feature disabled, a request for a file that
\* exists and could be read was answered 404 without a read.
C20_Witness ==
    /\ phase = "responded" /\ ~cfg.static_enabled
    /\ req.uri = <<"/", "i">>
    /\ fs[LocI].kind = "file"
    /\ resp.status = 404 /\ trace.reads = <<>>

(***************************************************************************)
(* The middleware as a state machine                                       *)
(***************************************************************************)
DefaultConfig ==
    WithHeaders([static_enabled |-> TRUE, root |-> StaticRoot,
                 index_files |-> <<n_i, n_ii>>, database |-> TRUE],
                [cache_control |-> CacheControl, etag |-> TRUE,
                 security_headers |-> TRUE, frame_options |-> FrameOptions,
                 xss_protection |-> TRUE])

InitRequestId ==
    /\ cfg = DefaultConfig
    /\ fs = MkFs("file", "absent")
    /\ phase = "idle"
    /\ req = NoReq
    /\ resp = NoResp
    /\ trace = NoTrace
    /\ filesRead = {}
    /\ mw = MwIdle
    /\ envelope = NoEnvelope
    /\ api = NoApi
    /\ AuxIdle

NextRequestId ==
    \/ \E h \in HeaderValues \cup {NoHeader}, u \in UuidStrings : MwCall(h, u)
    \/ \E h \in HeaderValues \cup {NoHeader} : MwInnerResponds(h)
    \/ MwStamp
    \/ MwDone

SpecRequestId == InitRequestId /\ [][NextRequestId]_vars

\* a header value HeaderValue::to_str can render: visible ASCII or tab
WellFormed(v) ==
    v # NoHeader /\ \A k \in 1..Len(v) : v[k] \in (32..126) \cup {9}

\* the bytes of an id made of ASCII characters
IdBytes(id) == [k \in 1..Len(id) |-> Ord(id[k])]

\* C6: the middleware selects the incoming x-request-id when it is present
\* and well-formed and a fresh UUID otherwise, and the request the downstream
\* service is called with carries the selected id.
C6_RequestIdSelected ==
    mw.stage \in {"called", "answered", "stamped"} =>
        /\ mw.seen = IdBytes(mw.request_id)
        /\ IF WellFormed(mw.incoming)
           THEN mw.seen = mw.incoming
           ELSE mw.request_id \in UuidStrings

\* C6 witness: an x-request-id that is present but not well-formed was
\* replaced by a generated id before the downstream call.
C6_Witness ==
    /\ mw.stage = "called"
    /\ mw.incoming # NoHeader /\ ~WellFormed(mw.incoming)
    /\ mw.request_id \in UuidStrings

\* C7: the response leaves with x-request-id equal to the selected id,
\* whatever the handler put there, and building the header never fails.
C7_ResponseCarriesSelectedId ==
    /\ mw.stage # "panicked"
    /\ mw.stage = "stamped" => mw.out = IdBytes(mw.request_id)

\* C7 witness: the handler had set a different x-request-id and the
\* response carries the middleware's.
C7_Witness ==
    /\ mw.stage = "stamped"
    /\ mw.handler # NoHeader /\ mw.handler # IdBytes(mw.request_id)
    /\ mw.out = IdBytes(mw.request_id)

(***************************************************************************)
(* API envelope: shared/src/types.rs, and errors: shared/src/error.rs      *)
(***************************************************************************)
\* mutant of ApiResponse_error: the message is also put in data
ApiResponse_error_with_data(code, message, uuid) ==
    [data |-> Some(message),
     error |-> Some([code |-> code, message |-> message, details |-> None]),
     request_id |-> uuid]

ApiResponse_success(data, uuid) ==
    [data |-> Some(data), error |-> None, request_id |-> uuid]

ApiResponse_error(code, message, uuid) ==
    [data |-> None,
     error |-> Some([code |-> code, message |-> message, details |-> None]),
     request_id |-> uuid]

ApiResponse_error_with_details(code, message, details, uuid) ==
    [data |-> None,
     error |-> Some([code |-> code, message |-> message, details |-> Some(details)]),
     request_id |-> uuid]

Payloads == {"p1", "p2", "p3", "p4", "p5"}
ErrorCodes == {"HTTP", "VALIDATION", "INTERNAL", "AUTH"}
ErrorMessages == {"m1", "m2", "m3", "m4"}
ErrorDetails == {"x1", "x2", "x3"}

BuildSuccess(data, uuid) ==
    /\ envelope' = [built |-> TRUE, ctor |-> "success",
                    value |-> ApiResponse_success(data, uuid)]
    /\ UNCHANGED <<lateVars, auxVars, cfg, fs, staticVars, mw, api>>

BuildError(code, message, uuid) ==
    /\ envelope' = [built |-> TRUE, ctor |-> "error",
                    value |-> ApiResponse_error(code, message, uuid)]
    /\ UNCHANGED <<lateVars, auxVars, cfg, fs, staticVars, mw, api>>

BuildErrorWithDetails(code, message, details, uuid) ==
    /\ envelope' = [built |-> TRUE, ctor |-> "error_with_details",
                    value |-> ApiResponse_error_with_details(code, message, details, uuid)]
    /\ UNCHANGED <<lateVars, auxVars, cfg, fs, staticVars, mw, api>>

InitEnvelope == InitRequestId

NextEnvelope ==
    \/ \E d \in Payloads, u \in UuidStrings : BuildSuccess(d, u)
    \/ \E c \in ErrorCodes, m \in ErrorMessages, u \in UuidStrings : BuildError(c, m, u)
    \/ \E c \in ErrorCodes, m \in ErrorMessages, x \in ErrorDetails, u \in UuidStrings :
           BuildErrorWithDetails(c, m, x, u)

SpecEnvelope == InitEnvelope /\ [][NextEnvelope]_vars

\* C8: every envelope a constructor built has exactly one of data and error;
\* success sets data only, the error constructors set error only.
C8_ExactlyOneOfDataError ==
    envelope.built =>
        /\ envelope.value.data.some # envelope.value.error.some
        /\ envelope.value.data.some <=> envelope.ctor = "success"
        /\ envelope.value.error.some
               <=> envelope.ctor \in {"error", "error_with_details"}

\* C8 witness: an envelope built by error_with_details, with its error and
\* details set and no data.
C8_Witness ==
    /\ envelope.built /\ envelope.ctor = "error_with_details"
    /\ envelope.value.error.some /\ envelope.value.error.value.details.some
    /\ ~envelope.value.data.some

(***************************************************************************)
(* API handlers: handlers/health.rs, system.rs, files.rs                   *)
(***************************************************************************)
Error_http(msg) == [variant |-> "Http", msg |-> msg]
Error_validation(msg) == [variant |-> "Validation", msg |-> msg]
Error_internal(msg) == [variant |-> "Internal", msg |-> msg]

Ok(v) == [ok |-> TRUE, value |-> v]
Err(e) == [ok |-> FALSE, err |-> e]

\* mutant of health_aggregate: only "healthy" counts as healthy
health_aggregate_strict(checks) ==
    IF \A k \in DOMAIN checks : checks[k] = "healthy"
    THEN "healthy" ELSE "unhealthy"

\* checks.values().all(|v| v == "healthy" || v == "disabled")
health_aggregate(checks) ==
    IF \A k \in DOMAIN checks : checks[k] = "healthy" \/ checks[k] = "disabled"
    THEN "healthy" ELSE "unhealthy"

\* (variant that does not look at the outcome of the probe)
health_check_no_probe(database, probe_ok, uuid) ==
    LET checks == [database |-> IF database THEN "healthy" ELSE "disabled",
                   redis    |-> "healthy",
                   docker   |-> "healthy"]
    IN  Ok([json |-> TRUE,
            body |-> ApiResponse_success(
                         [status |-> health_aggregate(checks), checks |-> checks],
                         uuid)])

\* health_check; probe_ok is the outcome of Database::health_check
health_check(database, probe_ok, uuid) ==
    LET checks == [database |-> IF database
                                THEN (IF probe_ok THEN "healthy" ELSE "unhealthy")
                                ELSE "disabled",
                   redis    |-> "healthy",
                   docker   |-> "healthy"]
    IN  Ok([json |-> TRUE,
            body |-> ApiResponse_success(
                         [status |-> health_aggregate(checks), checks |-> checks],
                         uuid)])

system_info(uuid) ==
    Ok([json |-> TRUE,
        body |-> ApiResponse_success(
                     [version |-> "CARGO_PKG_VERSION", active_connections |-> 42],
                     uuid)])

\* char::is_alphanumeric, for the characters of the model
\* ("e2" stands for a letter of two UTF-8 bytes, such as e with an acute)
IsAlphanumeric(ch) == ch \in {"a", "1", "t", "x", "e2"}

IsAllowedChar(ch) == IsAlphanumeric(ch) \/ ch = "." \/ ch = "_" \/ ch = "-"

\* mutant of sanitize_filename: the underscore is dropped too
IsAllowedCharNoUnderscore(ch) == IsAlphanumeric(ch) \/ ch = "." \/ ch = "-"

sanitize_filename_no_underscore(filename) ==
    SelectSeq(filename, IsAllowedCharNoUnderscore)

\* security::sanitize_filename
\* (variant that keeps the path separator)
IsAllowedCharOrSlash(ch) ==
    IsAlphanumeric(ch) \/ ch = "." \/ ch = "_" \/ ch = "-" \/ ch = "/"

sanitize_filename_keep_slash(filename) == SelectSeq(filename, IsAllowedCharOrSlash)

sanitize_filename(filename) == SelectSeq(filename, IsAllowedChar)

n_uploads == <<"uploads">>
LocUploads == <<n_r, n_uploads>>

RECURSIVE MkdirWalk(_, _, _)
MkdirWalk(f, cur, segs) ==
    IF segs = <<>> THEN [ok |-> TRUE, fs |-> f]
    ELSE LET h == Head(segs) IN
         IF h = <<>> \/ h = CurDir THEN MkdirWalk(f, cur, Tail(segs))
         ELSE IF h = ParentDir THEN MkdirWalk(f, Parent(cur), Tail(segs))
         ELSE LET child == Append(cur, h) IN
              IF ~Exists(f, child)
              THEN MkdirWalk((child :> Entry("dir", "")) @@ f, child, Tail(segs))
              ELSE IF f[child].kind = "dir" THEN MkdirWalk(f, child, Tail(segs))
              ELSE [ok |-> FALSE, fs |-> f]

\* tokio::fs::create_dir_all: Ok if every component is or becomes a directory
create_dir_all(f, p) == MkdirWalk(f, LocFsRoot, Split(p))

\* mutant of fs_write: a file that exists is left as it is
fs_write_keep(f, p, data) ==
    LET segs == Split(p)
        name == segs[Len(segs)]
        dir == Walk(f, LocFsRoot, SubSeq(segs, 1, Len(segs) - 1))
        target == Append(dir.loc, name)
    IN  IF p = <<>> \/ ~dir.ok THEN [ok |-> FALSE, fs |-> f]
        ELSE IF f[dir.loc].kind # "dir" THEN [ok |-> FALSE, fs |-> f]
        ELSE IF name \in {<<>>, CurDir, ParentDir} THEN [ok |-> FALSE, fs |-> f]
        ELSE IF Exists(f, target) /\ f[target].kind # "file" THEN [ok |-> FALSE, fs |-> f]
        ELSE IF Exists(f, target) THEN [ok |-> TRUE, loc |-> target, fs |-> f]
        ELSE [ok |-> TRUE, loc |-> target, fs |-> (target :> Entry("file", data)) @@ f]

\* tokio::fs::write: creates or truncates the file the path names; fails if
\* the parent is no directory or the name is a directory or cannot be opened
fs_write(f, p, data) ==
    LET segs == Split(p)
        name == segs[Len(segs)]
        dir == Walk(f, LocFsRoot, SubSeq(segs, 1, Len(segs) - 1))
        target == Append(dir.loc, name)
    IN  IF p = <<>> \/ ~dir.ok THEN [ok |-> FALSE, fs |-> f]
        ELSE IF f[dir.loc].kind # "dir" THEN [ok |-> FALSE, fs |-> f]
        ELSE IF name \in {<<>>, CurDir, ParentDir} THEN [ok |-> FALSE, fs |-> f]
        ELSE IF Exists(f, target) /\ f[target].kind # "file" THEN [ok |-> FALSE, fs |-> f]
        ELSE [ok |-> TRUE, loc |-> target, fs |-> (target :> Entry("file", data)) @@ f]

\* mutant of FirstFileField: the first field is taken, whatever its name
FirstFileField_any(form) == IF form = <<>> THEN 0 ELSE 1

\* the position of the first field named "file", 0 if there is none
FirstFileField(form) ==
    LET ks == {k \in 1..Len(form) : form[k].name = "file"}
    IN  IF ks = {} THEN 0 ELSE CHOOSE k \in ks : \A j \in ks : k <= j

\* upload_file. stream is what the multipart body does: "ok", "field_err"
\* (next_field fails before a field named "file" or the end of the body is
\* reached) or "bytes_err" (field.bytes fails). u_name and u_env are the UUIDs drawn for a generated
\* file name and for the envelope.
upload_file(c, f, form, stream, u_name, u_env) ==
    LET upload_dir == Join(c.root, n_uploads)
        mk == create_dir_all(f, upload_dir)
        k == FirstFileField(form)
        field == form[k]
        file_name == IF field.file_name.some
                     THEN sanitize_filename(field.file_name.value)
                     ELSE <<"upload_">> \o u_name
        file_path == Join(upload_dir, file_name)
        wr == fs_write(mk.fs, file_path, field.data)
    IN  IF ~mk.ok
        THEN [result |-> Err(Error_internal("Failed to create upload directory")),
              fs |-> mk.fs, written |-> {}]
        ELSE IF stream = "field_err"
        THEN [result |-> Err(Error_http("Failed to read multipart field")),
              fs |-> mk.fs, written |-> {}]
        ELSE IF k = 0
        THEN [result |-> Err(Error_validation("No file field found in multipart request")),
              fs |-> mk.fs, written |-> {}]
        ELSE IF stream = "bytes_err"
        THEN [result |-> Err(Error_http("Failed to read file data")),
              fs |-> mk.fs, written |-> {}]
        ELSE IF ~wr.ok
        THEN [result |-> Err(Error_internal("Failed to save uploaded file")),
              fs |-> mk.fs, written |-> {}]
        ELSE [result |-> Ok([json |-> TRUE,
                             body |-> ApiResponse_success(
                                          <<"File '", file_name, "' uploaded successfully">>,
                                          u_env)]),
              fs |-> wr.fs, written |-> {wr.loc}]

\* mutant of download_file: a missing file is answered with a plain 404
download_file_plain_404(c, f, file_path) ==
    LET full_path == Join(c.root, file_path)
        rd == fs_read(f, full_path)
    IN  IF ~StartsWith(full_path, c.root)
        THEN Err(Error_validation("Invalid file path"))
        ELSE IF rd.ok
        THEN Ok([json |-> FALSE, status |-> 200, body |-> rd.data,
                 content_type |-> mime_from_path(full_path),
                 file_name |-> file_name_of(full_path)])
        ELSE Ok([json |-> FALSE, status |-> 404, body |-> "",
                 content_type |-> "text/html", file_name |-> None])

\* the handler panicked: it returns nothing and the connection is closed
\* without a response (status 0)
handler_panicked ==
    Ok([json |-> FALSE, status |-> 0, body |-> "panicked",
        content_type |-> "", file_name |-> None])

\* the Response::builder() .. .unwrap() of lines 100-108 panics if the
\* Content-Disposition value, which holds the file name, is no header value
download_file(c, f, file_path) ==
    LET static_root == c.root
        full_path == Join(static_root, file_path)
        rd == fs_read(f, full_path)
        name == file_name_of(full_path)
        file_name == IF name.some THEN name ELSE Some(<<"download">>)
    IN  IF ~StartsWith(full_path, static_root)
        THEN Err(Error_validation("Invalid file path"))
        ELSE IF rd.ok
        THEN IF header_value_ok(file_name.value)
             THEN Ok([json |-> FALSE, status |-> 200, body |-> rd.data,
                      content_type |-> mime_from_path(full_path),
                      file_name |-> file_name])
             ELSE handler_panicked
        ELSE Err(Error_http("File not found"))

file_info(c, f, file_path, uuid) ==
    LET static_root == c.root
        full_path == Join(static_root, file_path)
        md == Resolve(f, full_path)
    IN  IF ~StartsWith(full_path, static_root)
        THEN Err(Error_validation("Invalid file path"))
        ELSE IF md.ok
        THEN Ok([json |-> TRUE,
                 body |-> ApiResponse_success(
                              [path |-> file_path, kind |-> f[md.loc].kind], uuid)])
        ELSE Err(Error_http("File not found"))

\* The conversion of a handler's Err(Error) into a response is not in the
\* sources of shared/src/error.rs; it is taken from the design: HTTP 200
\* with an envelope carrying the error.
error_into_response(e, uuid) ==
    [status |-> 200, json |-> TRUE,
     body |-> ApiResponse_error(e.variant, e.msg, uuid)]

\* axum's IntoResponse for the handlers' return types
into_response(result, uuid) ==
    IF ~result.ok THEN error_into_response(result.err, uuid)
    ELSE IF result.value.json
    THEN [status |-> 200, json |-> TRUE, body |-> result.value.body]
    ELSE [status |-> result.value.status, json |-> FALSE,
          content_type |-> result.value.content_type, body |-> result.value.body]

(***************************************************************************)
(* The API handlers as a state machine                                     *)
(***************************************************************************)
n_a == <<"a">>
LocOutsideA == <<n_a>>          \* /a, a file outside the static root
LocUploadsA == <<n_r, n_uploads, n_a>>

\* the file system the API handlers start on; ku is what <root>/uploads is
\* and ka what <root>/uploads/a is
MkApiFs(ku, ka) ==
    [l \in {LocFsRoot, LocRoot, LocOutsideA, LocUploads, LocUploadsA} |->
        CASE l = LocFsRoot   -> Entry("dir", "")
          [] l = LocRoot     -> Entry("dir", "")
          [] l = LocOutsideA -> Entry("file", "bytes_outside")
          [] l = LocUploads  -> Entry(ku, IF ku = "file" THEN "bytes_u" ELSE "")
          [] l = LocUploadsA -> Entry(ka, IF ka = "file" THEN "bytes_a" ELSE "")]

ApiFss ==
    {MkApiFs(ku, "absent") : ku \in {"absent", "dir", "file"}}
        \cup {MkApiFs("dir", ka) : ka \in {"dir", "file"}}

ApiConfigs ==
    {WithHeaders(r, h) :
        r \in [static_enabled : {TRUE}, root : {StaticRoot},
               index_files : {<<n_i, n_ii>>}, database : BOOLEAN],
        h \in HeaderSettings}

\* file names a client sends in the "file" field
RawFileNames ==
    {<<>>, <<"!">>, <<"a">>, <<".", ".">>, <<"/", "a">>, <<"a", ".", "t", "x", "t">>}

Datas == {"d1", "d2"}

FileFields ==
    [name : {"file"}, file_name : {None} \cup {Some(n) : n \in RawFileNames},
     data : Datas]

NoteField == [name |-> "note", file_name |-> None, data |-> "d1"]

\* multipart bodies: with or without a "file" field, before or after others
Forms ==
    {<<>>, <<NoteField>>}
        \cup {<<x>> : x \in FileFields}
        \cup {<<NoteField, x>> : x \in FileFields}
        \cup {<<x, y>> : x \in FileFields,
                         y \in {NoteField, [name |-> "file", file_name |-> Some(n_a),
                                            data |-> "d2"]}}

ApiPathChars == {"/", ".", "a", "uploads"}

\* the path a wildcard route captures: not empty
\* the paths of files upload_file may have stored
StoredPaths ==
    {<<"uploads", "/", "a", ".", "t", "x", "t">>}
        \cup {<<"uploads", "/", "upload_">> \o u : u \in UuidStrings}

\* a path that leaves the static root for the file /a
TraversalPaths == {<<".", ".", "/", "a">>}

ApiPaths ==
    (SeqsUpTo(ApiPathChars, MaxApiPathLen) \ {<<>>})
        \cup StoredPaths \cup TraversalPaths

InitApi ==
    /\ cfg \in ApiConfigs
    /\ fs \in ApiFss
    /\ phase = "idle"
    /\ req = NoReq
    /\ resp = NoResp
    /\ trace = NoTrace
    /\ filesRead = {}
    /\ mw = MwIdle
    /\ envelope = NoEnvelope
    /\ api = NoApi
    /\ AuxIdle

ApiCall(handler, input, result, uuid) ==
    api' = [called |-> TRUE, handler |-> handler, input |-> input,
            result |-> result, response |-> into_response(result, uuid)]

HealthCheck(probe_ok, uuid) ==
    /\ ~api.called
    /\ ApiCall("health", [probe_ok |-> probe_ok],
               health_check(cfg.database, probe_ok, uuid), uuid)
    /\ UNCHANGED <<lateVars, auxVars, cfg, fs, staticVars, mw, envelope>>

SystemInfo(uuid) ==
    /\ ~api.called
    /\ ApiCall("system", [none |-> TRUE], system_info(uuid), uuid)
    /\ UNCHANGED <<lateVars, auxVars, cfg, fs, staticVars, mw, envelope>>

UploadFile(form, stream, u_name, u_env) ==
    /\ ~api.called
    /\ LET up == upload_file(cfg, fs, form, stream, u_name, u_env) IN
        /\ ApiCall("upload",
                   [form |-> form, stream |-> stream, u_name |-> u_name],
                   up.result, u_env)
        /\ fs' = up.fs
        /\ stored' = IF up.written = {} THEN stored
                      ELSE LET l == CHOOSE w \in up.written : TRUE
                           IN  (l[Len(l)] :> form[FirstFileField(form)].data) @@ stored
    /\ UNCHANGED <<lateVars, san, race, boot, cfg, staticVars, mw, envelope>>

DownloadFile(file_path, uuid) ==
    /\ ~api.called
    /\ ApiCall("download", [file_path |-> file_path],
               download_file(cfg, fs, file_path), uuid)
    /\ UNCHANGED <<lateVars, auxVars, cfg, fs, staticVars, mw, envelope>>

FileInfo(file_path, uuid) ==
    /\ ~api.called
    /\ ApiCall("info", [file_path |-> file_path],
               file_info(cfg, fs, file_path, uuid), uuid)
    /\ UNCHANGED <<lateVars, auxVars, cfg, fs, staticVars, mw, envelope>>

\* the response is sent
ApiDeliver ==
    /\ api.called
    /\ api' = NoApi
    /\ UNCHANGED <<lateVars, auxVars, cfg, fs, staticVars, mw, envelope>>

NextApi ==
    \/ \E ok \in BOOLEAN, u \in UuidStrings : HealthCheck(ok, u)
    \/ \E u \in UuidStrings : SystemInfo(u)
    \/ \E form \in Forms, stream \in {"ok", "field_err", "bytes_err"},
          u1 \in UuidStrings :
           \E u2 \in UuidStrings \ {u1} : UploadFile(form, stream, u1, u2)
    \/ \E fp \in ApiPaths, u \in UuidStrings : DownloadFile(fp, u)
    \/ \E fp \in ApiPaths, u \in UuidStrings : FileInfo(fp, u)
    \/ ApiDeliver

SpecApi == InitApi /\ [][NextApi]_vars

\* the response is an envelope with the error object set and no payload
IsErrorEnvelope(r) == r.json /\ r.body.error.some /\ ~r.body.data.some

\* the API call could not do what was asked: the handler returned an error,
\* the file to download cannot be read, the file to describe does not
\* exist, or the upload has no field named "file"
ApiFailure ==
    /\ api.called
    /\ \/ ~api.result.ok
       \/ /\ api.handler = "download"
          /\ ~fs_read(fs, Join(cfg.root, api.input.file_path)).ok
       \/ /\ api.handler = "info"
          /\ ~Resolve(fs, Join(cfg.root, api.input.file_path)).ok
       \/ /\ api.handler = "upload"
          /\ \A k \in 1..Len(api.input.form) : api.input.form[k].name # "file"

UploadField == api.input.form[FirstFileField(api.input.form)]

\* an upload whose body was read and has a field named "file", handled
\* while <root>/uploads is (or was made) a directory
UploadReached ==
    /\ api.called /\ api.handler = "upload"
    /\ api.input.stream = "ok"
    /\ FirstFileField(api.input.form) # 0
    /\ Exists(fs, LocUploads) /\ fs[LocUploads].kind = "dir"

\* the name generated from the token drawn for this upload
GeneratedLoc == Append(LocUploads, <<"upload_">> \o api.input.u_name)

\* C11 (as claimed): when the "file" field has no filename, or one that
\* sanitizes to the empty string, the upload succeeds and its bytes are
\* stored under the generated name "upload_<token>".
C11_GeneratedNameWhenAbsentOrEmpty ==
    (/\ UploadReached
     /\ \/ ~UploadField.file_name.some
        \/ sanitize_filename(UploadField.file_name.value) = <<>>)
        => /\ api.result.ok
           /\ Exists(fs, GeneratedLoc)
           /\ fs[GeneratedLoc] = Entry("file", UploadField.data)

\* the multipart body of the upload has no field named "file"
NoFileField ==
    /\ api.called /\ api.handler = "upload"
    /\ \A k \in 1..Len(api.input.form) : api.input.form[k].name # "file"

StoredName ==
    IF UploadField.file_name.some
    THEN sanitize_filename(UploadField.file_name.value)
    ELSE <<"upload_">> \o api.input.u_name

\* the request input is at fault: the body cannot be read, has no field
\* named "file", or names the file with what is no file name
UploadInputProblem ==
    \/ api.input.stream # "ok"
    \/ FirstFileField(api.input.form) = 0
    \/ StoredName \in {<<>>, CurDir, ParentDir}

\* the file system is at fault: <root>/uploads is no directory, or the name
\* to write is taken by a directory
UploadFsFailure ==
    \/ ~(Exists(fs, LocUploads) /\ fs[LocUploads].kind = "dir")
    \/ /\ FirstFileField(api.input.form) # 0
       /\ Exists(fs, Append(LocUploads, StoredName))
       /\ fs[Append(LocUploads, StoredName)].kind = "dir"

\* C14 (as claimed): in upload_file a file-system failure yields an internal
\* error and an input problem a validation error, and neither class is
\* reported as the other.
C14_UploadFailureClasses ==
    (api.called /\ api.handler = "upload" /\ ~api.result.ok) =>
        /\ (UploadFsFailure /\ ~UploadInputProblem)
              => api.result.err.variant = "Internal"
        /\ (UploadInputProblem /\ ~UploadFsFailure)
              => api.result.err.variant = "Validation"
        /\ api.result.err.variant = "Internal" => UploadFsFailure
        /\ api.result.err.variant = "Validation" => UploadInputProblem

\* the download asks for uploads/<n>, n a name an upload was stored under
DownloadOfStored ==
    /\ api.called /\ api.handler = "download"
    /\ Len(api.input.file_path) > 2
    /\ SubSeq(api.input.file_path, 1, 2) = <<"uploads", "/">>
    /\ SubSeq(api.input.file_path, 3, Len(api.input.file_path)) \in DOMAIN stored

DownloadedName == SubSeq(api.input.file_path, 3, Len(api.input.file_path))

\* the name ends in ".txt"
IsTxtName(n) == Len(n) > 4 /\ SubSeq(n, Len(n) - 3, Len(n)) = <<".", "t", "x", "t">>

\* C15: after a successful upload of bytes B, a download of
\* uploads/<stored name> returns exactly the bytes uploaded to that name
\* last, with the Content-Type of the stored name's extension.
C15_UploadDownloadRoundTrip ==
    DownloadOfStored =>
        /\ api.result.ok
        /\ api.response.status = 200
        /\ api.response.body = stored[DownloadedName]
        /\ api.response.content_type =
               (IF IsTxtName(DownloadedName) THEN "text/plain"
                ELSE "application/octet-stream")

\* C15 witness: "a.txt" was uploaded over an earlier upload of other bytes
\* and downloaded as text/plain with the later bytes.
C15_Witness ==
    /\ DownloadOfStored
    /\ DownloadedName = <<"a", ".", "t", "x", "t">>
    /\ stored[DownloadedName] = "d2"
    /\ api.result.ok /\ api.response.body = "d2"
    /\ api.response.content_type = "text/plain"

\* where the path a file handler was asked for leads in the file system
ApiTarget == Resolve(fs, Join(cfg.root, api.input.file_path))

\* C16 (as claimed): download_file and file_info fail with a validation
\* error whenever the requested path leads out of the static root, so that
\* neither reads or stats a file outside it, also for paths with "..".
C16_ApiFilesInsideRoot ==
    (api.called /\ api.handler \in {"download", "info"}) =>
        /\ (ApiTarget.ok /\ ~IsPrefix(LocRoot, ApiTarget.loc))
              => (~api.result.ok /\ api.result.err.variant = "Validation")
        /\ api.result.ok => IsPrefix(LocRoot, ApiTarget.loc)

(***************************************************************************)
(* sanitize_filename applied to arbitrary names                            *)
(***************************************************************************)
\* characters of a supplied file name: allowed ones and others
NameChars == {"a", "1", ".", "_", "-", " ", "!", "/"}

SuppliedNames == SeqsUpTo(NameChars, MaxNameLen)

InitSanitize == InitRequestId

Sanitize(filename) ==
    /\ ~san.applied
    /\ san' = [applied |-> TRUE, input |-> filename,
               output |-> sanitize_filename(filename)]
    /\ UNCHANGED <<lateVars, stored, race, boot, cfg, fs, staticVars, mw, envelope, api>>

SanitizeReturn ==
    /\ san.applied
    /\ san' = NoSan
    /\ UNCHANGED <<lateVars, stored, race, boot, cfg, fs, staticVars, mw, envelope, api>>

NextSanitize ==
    \/ \E n \in SuppliedNames : Sanitize(n)
    \/ SanitizeReturn

SpecSanitize == InitSanitize /\ [][NextSanitize]_vars

\* the positions of the input that hold an allowed character
AllowedPositions(n) ==
    {k \in 1..Len(n) :
        n[k] \in {"a", "1", "t", "x"} \/ n[k] = "." \/ n[k] = "_" \/ n[k] = "-"}

\* the j-th smallest element of a set of positions
NthPosition(ks, j) == CHOOSE k \in ks : Cardinality({m \in ks : m <= k}) = j

\* C12: sanitize_filename returns exactly the allowed characters of its
\* input (alphanumeric, '.', '_', '-') in their original order and drops
\* every other one; a name of allowed characters only is returned unchanged.
C12_SanitizeKeepsAllowedInOrder ==
    san.applied =>
        LET keep == AllowedPositions(san.input) IN
        /\ Len(san.output) = Cardinality(keep)
        /\ \A j \in 1..Len(san.output) :
              san.output[j] = san.input[NthPosition(keep, j)]
        /\ (keep = 1..Len(san.input)) => san.output = san.input

\* C12 witness: the name "a!." has a character to drop between two to keep,
\* and was sanitized to "a.".
C12_Witness ==
    /\ san.applied
    /\ san.input = <<"a", "!", ".">>
    /\ san.output = <<"a", ".">>

(***************************************************************************)
(* Two upload requests in flight at once.  Each runs upload_file up to its *)
(* next suspension point per step; tokio::fs::write is std::fs::write on a *)
(* blocking thread: File::create (open, create, truncate) and write_all.   *)
(***************************************************************************)
Tasks == {1, 2}

\* file names the two clients supply; "a" and "a/" are stored as "a"
RaceFileNames == {<<"a">>, <<"a", "/">>, <<"1">>}

\* the bytes they upload, of different lengths
RaceDatas == {<<1>>, <<2, 2>>}

\* the file systems the race starts on: no uploads directory yet, an empty
\* one, or one that holds a file "a" already
RaceFss ==
    {[l \in {LocFsRoot, LocRoot, LocUploads, LocUploadsA} |->
        CASE l = LocFsRoot   -> Entry("dir", <<>>)
          [] l = LocRoot     -> Entry("dir", <<>>)
          [] l = LocUploads  -> Entry(ku, <<>>)
          [] l = LocUploadsA -> Entry(ka, IF ka = "file" THEN <<9, 9, 9>> ELSE <<>>)]
     : ku \in {"absent", "dir"}, ka \in {"absent"}}
    \cup
    {[l \in {LocFsRoot, LocRoot, LocUploads, LocUploadsA} |->
        CASE l = LocFsRoot   -> Entry("dir", <<>>)
          [] l = LocRoot     -> Entry("dir", <<>>)
          [] l = LocUploads  -> Entry("dir", <<>>)
          [] l = LocUploadsA -> Entry("file", <<9, 9, 9>>)]}

\* File::create: the file is created, or truncated to no bytes
fs_create(f, p) ==
    LET segs == Split(p)
        name == segs[Len(segs)]
        dir == Walk(f, LocFsRoot, SubSeq(segs, 1, Len(segs) - 1))
        target == Append(dir.loc, name)
    IN  IF p = <<>> \/ ~dir.ok THEN [ok |-> FALSE, fs |-> f]
        ELSE IF f[dir.loc].kind # "dir" THEN [ok |-> FALSE, fs |-> f]
        ELSE IF name \in {<<>>, CurDir, ParentDir} THEN [ok |-> FALSE, fs |-> f]
        ELSE IF Exists(f, target) /\ f[target].kind # "file" THEN [ok |-> FALSE, fs |-> f]
        ELSE [ok |-> TRUE, loc |-> target, fs |-> (target :> Entry("file", <<>>)) @@ f]

\* write_all on a descriptor at offset 0: the bytes replace the first
\* Len(data) bytes of the file, what lies behind them stays
fs_write_all(f, loc, data) ==
    LET old == f[loc].data
    IN  [f EXCEPT ![loc].data = data \o SubSeq(old, Len(data) + 1, Len(old))]

RaceTask(file_name, data) ==
    [pc |-> "start", raw |-> file_name, data |-> data,
     path |-> <<>>, loc |-> <<>>, result |-> "none"]

InitRace ==
    /\ cfg = DefaultConfig
    /\ fs \in RaceFss
    /\ phase = "idle"
    /\ req = NoReq
    /\ resp = NoResp
    /\ trace = NoTrace
    /\ filesRead = {}
    /\ mw = MwIdle
    /\ envelope = NoEnvelope
    /\ api = NoApi
    /\ AuxIdle

raceOthers == <<lateVars, san, stored, boot, cfg, staticVars, mw, envelope, api>>

\* the two requests arrive
RaceStart(n1, d1, n2, d2) ==
    /\ ~race.started
    /\ race' = [started |-> TRUE, last |-> 0,
                task |-> <<RaceTask(n1, d1), RaceTask(n2, d2)>>]
    /\ UNCHANGED <<lateVars, fs, raceOthers>>

\* upload_file up to the end of create_dir_all
RaceMkdir(t) ==
    /\ race.started /\ race.task[t].pc = "start"
    /\ LET mk == create_dir_all(fs, Join(cfg.root, n_uploads)) IN
        IF mk.ok
        THEN /\ fs' = mk.fs
             /\ race' = [race EXCEPT !.task[t].pc = "field"]
        ELSE /\ fs' = fs
             /\ race' = [race EXCEPT !.task[t].pc = "done",
                                     !.task[t].result = "Internal"]
    /\ UNCHANGED raceOthers

\* next_field, the sanitized name, the join and field.bytes
RaceField(t) ==
    /\ race.started /\ race.task[t].pc = "field"
    /\ race' = [race EXCEPT
                   !.task[t].pc = "create",
                   !.task[t].path = Join(Join(cfg.root, n_uploads),
                                         sanitize_filename(race.task[t].raw))]
    /\ UNCHANGED <<lateVars, fs, raceOthers>>

\* fs::write, first half: File::create
RaceCreate(t) ==
    /\ race.started /\ race.task[t].pc = "create"
    /\ LET cr == fs_create(fs, race.task[t].path) IN
        IF cr.ok
        THEN /\ fs' = cr.fs
             /\ race' = [race EXCEPT !.task[t].pc = "write",
                                     !.task[t].loc = cr.loc]
        ELSE /\ fs' = fs
             /\ race' = [race EXCEPT !.task[t].pc = "done",
                                     !.task[t].result = "Internal"]
    /\ UNCHANGED raceOthers

\* fs::write, second half: write_all
RaceWrite(t) ==
    /\ race.started /\ race.task[t].pc = "write"
    /\ fs' = fs_write_all(fs, race.task[t].loc, race.task[t].data)
    /\ race' = [race EXCEPT !.task[t].pc = "respond", !.last = t]
    /\ UNCHANGED raceOthers

\* Ok(Json(ApiResponse::success(..)))
RaceRespond(t) ==
    /\ race.started /\ race.task[t].pc = "respond"
    /\ race' = [race EXCEPT !.task[t].pc = "done", !.task[t].result = "Ok"]
    /\ UNCHANGED <<lateVars, fs, raceOthers>>

NextRace ==
    \/ \E n1 \in RaceFileNames, n2 \in RaceFileNames,
          d1 \in RaceDatas, d2 \in RaceDatas : RaceStart(n1, d1, n2, d2)
    \/ \E t \in Tasks : RaceMkdir(t)
    \/ \E t \in Tasks : RaceField(t)
    \/ \E t \in Tasks : RaceCreate(t)
    \/ \E t \in Tasks : RaceWrite(t)
    \/ \E t \in Tasks : RaceRespond(t)

SpecRace == InitRace /\ [][NextRace]_vars

\* both uploads have completed and were stored under the same name
RaceSameNameDone ==
    /\ race.started
    /\ \A t \in Tasks : race.task[t].pc = "done"
    /\ race.task[1].path = race.task[2].path

\* C17 (as claimed): two concurrent uploads to the same stored name both
\* report success and, once both have completed, the file holds the bytes
\* of the upload whose write happened last.
C17_LastWriterWins ==
    RaceSameNameDone =>
        /\ \A t \in Tasks : race.task[t].result = "Ok"
        /\ fs[race.task[1].loc].kind = "file"
        /\ fs[race.task[1].loc].data = race.task[race.last].data

(***************************************************************************)
(* Request tasks under every header setting of the configuration and with  *)
(* a file whose name holds a control character                             *)
(***************************************************************************)
\* header settings, those included that no header can be built from
AnyHeaderSettings ==
    [cache_control : {CacheControl, <<"a", "\n">>}, etag : {TRUE},
     security_headers : BOOLEAN,
     frame_options : {FrameOptions, <<"\n">>}, xss_protection : {TRUE}]

TaskConfigs ==
    {WithHeaders(r, h) :
        r \in [static_enabled : {TRUE}, root : {StaticRoot},
               index_files : {<<n_i, n_ii>>}, database : {TRUE}],
        h \in AnyHeaderSettings}

\* a file name with a line feed in it, as a POSIX file system allows
n_ctl == <<"i", "\n">>
LocCtl == <<n_r, n_ctl>>

TaskFss ==
    {(LocCtl :> Entry("file", "bytes_ctl")) @@ MkFs(ki, "absent") : ki \in Kinds}

\* paths asked of /api/files/download
TaskPaths == {n_i, n_ii, n_ctl}

InitTask ==
    /\ cfg \in TaskConfigs
    /\ fs \in TaskFss
    /\ phase = "idle"
    /\ req = NoReq
    /\ resp = NoResp
    /\ trace = NoTrace
    /\ filesRead = {}
    /\ mw = MwIdle
    /\ envelope = NoEnvelope
    /\ api = NoApi
    /\ AuxIdle

NextTask ==
    \/ \E uri \in UriPaths : ServeStatic(uri)
    \/ Deliver
    \/ \E fp \in TaskPaths, u \in UuidStrings : DownloadFile(fp, u)
    \/ ApiDeliver

SpecTask == InitTask /\ [][NextTask]_vars

\* C18 (as claimed): every request task ends by producing a response: a
\* static request is answered 200, 403 or 404, an API request 200; no task
\* ends on a panic (status 0) for an invalid header value.
C18_EveryTaskResponds ==
    /\ phase = "responded" => resp.status \in {200, 403, 404}
    /\ api.called => api.response.status = 200

(***************************************************************************)
(* Startup: Config::load_from_file, shared/src/config.rs                   *)
(***************************************************************************)
\* values of StaticConfig.root in a configuration file: empty, relative,
\* an existing directory, and an absolute path nothing exists at
FileRoots == {<<>>, <<".", "/", "r">>, StaticRoot, <<"/", "x">>}

\* the fields of a parsed configuration file that load_from_file looks at
FileConfigs ==
    [port : {0, 8080}, host : {<<>>, <<"h">>},
     database_url : {<<>>, <<"u">>}, redis_url : {<<>>, <<"u">>},
     static_root : FileRoots]

\* what is at the path given: no readable file, a file that is no valid
\* TOML for Config, or a file that parses to a configuration
ConfigFiles ==
    {[kind |-> "missing"], [kind |-> "malformed"]}
        \cup {[kind |-> "toml", config |-> c] : c \in FileConfigs}

\* CONTAINER_CODES_SERVER_PORT, CONTAINER_CODES_SERVER_HOST,
\* CONTAINER_CODES_DATABASE_URL and CONTAINER_CODES_REDIS_URL, if set
Envs ==
    [port : {None, Some(<<"0">>), Some(<<"9">>), Some(<<"x">>),
             Some(<<"6", "5", "5", "3", "6">>)},
     host : {None, Some(<<>>)},
     database_url : {None, Some(<<>>), Some(<<"u">>)},
     redis_url : {None, Some(<<>>)}]

\* the value of a decimal digit, -1 for another character
DigitValue(ch) ==
    CASE ch = "0" -> 0 [] ch = "3" -> 3 [] ch = "5" -> 5 [] ch = "6" -> 6
      [] ch = "9" -> 9 [] OTHER -> -1

RECURSIVE ParseDigits(_, _)
\* the number the digits read so far (acc) and those of str make, -1 if
\* str has another character or the number does not fit 16 bits
ParseDigits(str, acc) ==
    IF str = <<>> THEN acc
    ELSE IF DigitValue(Head(str)) < 0 THEN -1
    ELSE IF acc * 10 + DigitValue(Head(str)) > 65535 THEN -1
    ELSE ParseDigits(Tail(str), acc * 10 + DigitValue(Head(str)))

\* str::parse::<u16>, for the strings of the model
parse_u16(str) ==
    IF str = <<>> \/ ParseDigits(str, 0) < 0
    THEN [ok |-> FALSE, value |-> 0]
    ELSE [ok |-> TRUE, value |-> ParseDigits(str, 0)]

\* Config::apply_env_overrides with set_from_env_key
apply_env_overrides(c, env) ==
    LET c1 == IF env.port.some /\ parse_u16(env.port.value).ok
              THEN [c EXCEPT !.port = parse_u16(env.port.value).value]
              ELSE c
        c2 == IF env.host.some THEN [c1 EXCEPT !.host = env.host.value] ELSE c1
        c3 == IF env.database_url.some
              THEN [c2 EXCEPT !.database_url = env.database_url.value] ELSE c2
    IN  IF env.redis_url.some
        THEN [c3 EXCEPT !.redis_url = env.redis_url.value] ELSE c3

\* (variant that accepts an empty database.url)
validate_no_database_url(c) ==
    IF c.port = 0 THEN Err([variant |-> "Config", msg |-> "invalid server.port"])
    ELSE IF c.host = <<>> THEN Err([variant |-> "Config", msg |-> "missing server.host"])
    ELSE IF c.redis_url = <<>>
    THEN Err([variant |-> "Config", msg |-> "missing redis.url"])
    ELSE Ok(c)

\* Config::validate
validate(c) ==
    IF c.port = 0 THEN Err([variant |-> "Config", msg |-> "invalid server.port"])
    ELSE IF c.host = <<>> THEN Err([variant |-> "Config", msg |-> "missing server.host"])
    ELSE IF c.database_url = <<>>
    THEN Err([variant |-> "Config", msg |-> "missing database.url"])
    ELSE IF c.redis_url = <<>>
    THEN Err([variant |-> "Config", msg |-> "missing redis.url"])
    ELSE Ok(c)

\* (variant that validates the file's configuration before the overrides)
load_from_file_validate_first(file, env) ==
    IF file.kind = "missing"
    THEN Err([variant |-> "Config", msg |-> "file not found"])
    ELSE IF file.kind = "malformed"
    THEN Err([variant |-> "Toml", msg |-> "parse error"])
    ELSE IF ~validate(file.config).ok THEN validate(file.config)
    ELSE Ok(apply_env_overrides(file.config, env))

\* Config::load_from_file
load_from_file(file, env) ==
    IF file.kind = "missing"
    THEN Err([variant |-> "Config", msg |-> "file not found"])
    ELSE IF file.kind = "malformed"
    THEN Err([variant |-> "Toml", msg |-> "parse error"])
    ELSE validate(apply_env_overrides(file.config, env))

InitBoot == InitRequestId

bootOthers == <<lateVars, san, stored, race, cfg, fs, staticVars, mw, envelope, api>>

LoadFromFile(file, env) ==
    /\ ~boot.loaded
    /\ boot' = [loaded |-> TRUE, serving |-> FALSE, file |-> file, env |-> env,
                result |-> load_from_file(file, env)]
    /\ UNCHANGED bootOthers

\* main: server::start with the configuration loaded. The database is
\* constructed if database.url is not empty; db_new_ok and bind_ok are the
\* outcomes of Database::new and of binding the listener, and a failure of
\* either ends the process.
ServerStart(db_new_ok, bind_ok) ==
    /\ boot.loaded /\ boot.result.ok /\ ~boot.serving
    /\ LET config == boot.result.value
           wanted == config.database_url # <<>>
       IN  IF (wanted /\ ~db_new_ok) \/ ~bind_ok
           THEN boot' = NoBoot
           ELSE boot' = [loaded |-> TRUE, serving |-> TRUE, file |-> boot.file,
                         env |-> boot.env, result |-> boot.result,
                         database |-> wanted]
    /\ UNCHANGED bootOthers

\* GET /api/health on the running server: state.database is what start built
BootHealthCheck(probe_ok, uuid) ==
    /\ boot.loaded /\ boot.serving
    /\ ~api.called
    /\ ApiCall("health", [probe_ok |-> probe_ok],
               health_check(boot.database, probe_ok, uuid), uuid)
    /\ UNCHANGED <<lateVars, auxVars, cfg, fs, staticVars, mw, envelope>>

\* main: the process exits on a configuration error
ProcessExit ==
    /\ boot.loaded /\ ~boot.result.ok
    /\ boot' = NoBoot
    /\ UNCHANGED bootOthers

NextBoot ==
    \/ \E file \in ConfigFiles, env \in Envs : LoadFromFile(file, env)
    \/ \E db_new_ok \in BOOLEAN, bind_ok \in BOOLEAN : ServerStart(db_new_ok, bind_ok)
    \/ ProcessExit
    \/ \E ok \in BOOLEAN, u \in UuidStrings : BootHealthCheck(ok, u)
    \/ ApiDeliver

SpecBoot == InitBoot /\ [][NextBoot]_vars

\* C19 (as claimed): a configuration that passed loading and validation
\* has a static root that is not empty, is absolute and names an existing
\* directory; none with an empty root is accepted or served with.
C19_ValidatedRootIsAbsoluteDir ==
    (boot.loaded /\ boot.result.ok) =>
        LET root == boot.result.value.static_root IN
        /\ root # <<>>
        /\ IsAbsolute(root)
        /\ Resolve(fs, root).ok
        /\ fs[Resolve(fs, root).loc].kind = "dir"

(***************************************************************************)
(* The router and its middleware stack: server.rs, create_router.          *)
(* A request path is the sequence of its segments: /api/health is          *)
(* <<"api", "health">>, a trailing slash is a last segment "".             *)
(***************************************************************************)
\* api_routes: path under /api, whether it ends in a wildcard, method, handler
api_routes ==
    << [segs |-> <<"health">>, wildcard |-> FALSE, method |-> "GET",
        handler |-> "health_check"],
       [segs |-> <<"system", "info">>, wildcard |-> FALSE, method |-> "GET",
        handler |-> "system_info"],
       [segs |-> <<"files", "upload">>, wildcard |-> FALSE, method |-> "POST",
        handler |-> "upload_file"],
       [segs |-> <<"files", "download">>, wildcard |-> TRUE, method |-> "GET",
        handler |-> "download_file"],
       [segs |-> <<"files", "info">>, wildcard |-> TRUE, method |-> "GET",
        handler |-> "file_info"] >>

\* a route's path matches: exactly, or for "/*path" with a remainder that
\* is not empty
route_matches(r, sub) ==
    IF r.wildcard
    THEN /\ Len(sub) > Len(r.segs)
         /\ SubSeq(sub, 1, Len(r.segs)) = r.segs
         /\ SubSeq(sub, Len(r.segs) + 1, Len(sub)) # <<"">>
    ELSE sub = r.segs

\* get(handler) serves GET and HEAD, post(handler) serves POST
method_matches(r, method) ==
    method = r.method \/ (r.method = "GET" /\ method = "HEAD")

\* mutant of dispatch: a matched path with another method falls through to
\* the fallback
dispatch_method_fallback(method, path) ==
    IF path # <<>> /\ path[1] = "api"
    THEN LET sub == Tail(path)
             hits == {k \in 1..Len(api_routes) :
                         /\ route_matches(api_routes[k], sub)
                         /\ method_matches(api_routes[k], method)}
         IN  IF hits = {} THEN "serve_static"
             ELSE api_routes[CHOOSE k \in hits : TRUE].handler
    ELSE "serve_static"

\* Router::new().nest("/api", api_routes).fallback(serve_static): the
\* handler a request is given to; a matched path whose method router has
\* no handler for the method is answered 405 by the router itself
dispatch(method, path) ==
    IF path # <<>> /\ path[1] = "api"
    THEN LET sub == Tail(path)
             hits == {k \in 1..Len(api_routes) : route_matches(api_routes[k], sub)}
         IN  IF hits = {} THEN "serve_static"
             ELSE LET r == api_routes[CHOOSE k \in hits : TRUE]
                  IN  IF method_matches(r, method) THEN r.handler
                      ELSE "method_not_allowed"
    ELSE "serve_static"

\* mutant of middleware_stack: the layers in the opposite order
middleware_stack_reversed ==
    <<"body_limit", "cors", "compression", "request_id", "trace">>

\* ServiceBuilder::new().layer(..)...: the first layer added is outermost
middleware_stack ==
    <<"trace", "request_id", "compression", "cors", "body_limit">>

Methods == {"GET", "HEAD", "POST", "PUT", "OPTIONS"}

RouterPaths ==
    { <<>>, <<"index.html">>, <<"apix">>, <<"api">>, <<"api", "nope">>,
      <<"api", "health">>, <<"api", "health", "">>,
      <<"api", "system", "info">>, <<"api", "system">>,
      <<"api", "files", "upload">>,
      <<"api", "files", "download">>, <<"api", "files", "download", "">>,
      <<"api", "files", "download", "a">>, <<"api", "files", "download", "a", "b">>,
      <<"api", "files", "info", "a">> }

InitRouter == InitRequestId

connOthers ==
    <<vcn, page, hist, auxVars, cfg, fs, staticVars, mw, envelope, api>>

\* a request arrives
Accept(method, path) ==
    /\ ~conn.open
    /\ conn' = [open |-> TRUE, method |-> method, path |-> path,
                depth |-> 0, dir |-> "in", log |-> <<>>, target |-> "none"]
    /\ UNCHANGED connOthers

\* the next layer of the stack is entered. CorsLayer answers an OPTIONS
\* request itself, as a preflight, and does not call the service inside it
StageIn ==
    /\ conn.open /\ conn.dir = "in" /\ conn.depth < Len(middleware_stack)
    /\ LET stage == middleware_stack[conn.depth + 1]
           preflight == stage = "cors" /\ conn.method = "OPTIONS"
       IN  conn' = [conn EXCEPT
                      !.depth = @ + 1,
                      !.log = Append(@, <<"in", stage>>),
                      !.dir = IF preflight THEN "out" ELSE "in",
                      !.target = IF preflight THEN "cors_preflight" ELSE @]
    /\ UNCHANGED connOthers

\* inside the innermost layer the router gives the request to a handler
Dispatch ==
    /\ conn.open /\ conn.dir = "in" /\ conn.depth = Len(middleware_stack)
    /\ LET h == dispatch(conn.method, conn.path)
       IN  conn' = [conn EXCEPT !.dir = "out", !.target = h,
                                !.log = Append(@, <<"handler", h>>)]
    /\ UNCHANGED connOthers

\* the response passes the innermost layer entered and not yet left
StageOut ==
    /\ conn.open /\ conn.dir = "out" /\ conn.depth > 0
    /\ conn' = [conn EXCEPT
                   !.depth = @ - 1,
                   !.log = Append(@, <<"out", middleware_stack[conn.depth]>>)]
    /\ UNCHANGED connOthers

\* the response is sent
Respond ==
    /\ conn.open /\ conn.dir = "out" /\ conn.depth = 0
    /\ conn' = NoConn
    /\ UNCHANGED connOthers

NextRouter ==
    \/ \E m \in Methods, p \in RouterPaths : Accept(m, p)
    \/ StageIn
    \/ Dispatch
    \/ StageOut
    \/ Respond

SpecRouter == InitRouter /\ [][NextRouter]_vars

\* the request has been answered by a handler or a layer
Answered == conn.open /\ conn.dir = "out"

\* the path has a segment sequence after "prefix" that is not empty
HasRest(path, prefix) ==
    /\ Len(path) > Len(prefix)
    /\ SubSeq(path, 1, Len(prefix)) = prefix
    /\ SubSeq(path, Len(prefix) + 1, Len(path)) # <<"">>

\* the API handler registered for the path, "none" if there is none
ApiHandlerOf(path) ==
    CASE path = <<"api", "health">> -> "health_check"
      [] path = <<"api", "system", "info">> -> "system_info"
      [] path = <<"api", "files", "upload">> -> "upload_file"
      [] HasRest(path, <<"api", "files", "download">>) -> "download_file"
      [] HasRest(path, <<"api", "files", "info">>) -> "file_info"
      [] OTHER -> "none"

\* the method the handler is registered for
MethodOf(h) == IF h = "upload_file" THEN "POST" ELSE "GET"

StageOrder == <<"trace", "request_id", "compression", "cors", "body_limit">>

\* the response has left the outermost layer
Finished == conn.open /\ conn.dir = "out" /\ conn.depth = 0

\* the position of an event in the log of the request, 0 if it is not there
LogIndex(e) ==
    LET ks == {k \in 1..Len(conn.log) : conn.log[k] = e}
    IN  IF ks = {} THEN 0 ELSE CHOOSE k \in ks : \A j \in ks : k <= j

Utf8Width(ch) == IF ch = "e2" THEN 2 ELSE 1

RECURSIVE str_len(_)
\* str::len: the length of the string in bytes
str_len(str) ==
    IF str = <<>> THEN 0 ELSE Utf8Width(Head(str)) + str_len(Tail(str))

\* the character may be part of a container name
IsNameChar(ch) == IsAlphanumeric(ch) \/ ch = "-" \/ ch = "_"

\* (variant that measures the length in characters)
validate_container_name_chars(name) ==
    IF name = <<>>
    THEN Err(Error_validation("Container name cannot be empty"))
    ELSE IF Len(name) > 63
    THEN Err(Error_validation("Container name cannot be longer than 63 characters"))
    ELSE IF ~(\A k \in 1..Len(name) : IsNameChar(name[k]))
    THEN Err(Error_validation("Container name can only contain alphanumeric characters, hyphens, and underscores"))
    ELSE IF name[1] = "-" \/ name[Len(name)] = "-"
    THEN Err(Error_validation("Container name cannot start or end with a hyphen"))
    ELSE Ok("unit")

validate_container_name(name) ==
    IF name = <<>>
    THEN Err(Error_validation("Container name cannot be empty"))
    ELSE IF str_len(name) > 63
    THEN Err(Error_validation("Container name cannot be longer than 63 characters"))
    ELSE IF ~(\A k \in 1..Len(name) : IsNameChar(name[k]))
    THEN Err(Error_validation("Container name can only contain alphanumeric characters, hyphens, and underscores"))
    ELSE IF name[1] = "-" \/ name[Len(name)] = "-"
    THEN Err(Error_validation("Container name cannot start or end with a hyphen"))
    ELSE Ok("unit")

\* n times the character ch
Repeat(ch, n) == [k \in 1..n |-> ch]

\* lengths of the middle part of a name: short ones and those around the
\* limit, in characters and in bytes
RunLengths == {0, 1, 30, 31, 32, 61, 62, 63, 64}

ContainerNameChars == {"a", "1", "e2", "-", "_", "@"}

\* container names: at most one character, a run of one letter, at most
\* one character
ContainerNames ==
    {pre \o Repeat(ch, n) \o suf :
        pre \in SeqsUpTo(ContainerNameChars, 1),
        suf \in SeqsUpTo(ContainerNameChars, 1),
        ch \in {"a", "e2"}, n \in RunLengths}

InitContainerName == InitRequestId

ValidateContainerName(name) ==
    /\ ~vcn.applied
    /\ vcn' = [applied |-> TRUE, input |-> name,
               output |-> validate_container_name(name)]
    /\ UNCHANGED <<conn, page, hist, auxVars, cfg, fs, staticVars, mw, envelope, api>>

ValidateContainerNameReturn ==
    /\ vcn.applied
    /\ vcn' = NoVcn
    /\ UNCHANGED <<conn, page, hist, auxVars, cfg, fs, staticVars, mw, envelope, api>>

NextContainerName ==
    \/ \E name \in ContainerNames : ValidateContainerName(name)
    \/ ValidateContainerNameReturn

SpecContainerName == InitContainerName /\ [][NextContainerName]_vars

\* the number of bytes the name takes: one per character and one more for
\* each two-byte letter
NameBytes(name) ==
    Len(name) + Cardinality({k \in 1..Len(name) : name[k] = "e2"})

HeaderConfigs ==
    {WithHeaders(r, h) :
        r \in [static_enabled : {TRUE}, root : {StaticRoot},
               index_files : {<<n_i, n_ii>>}, database : {TRUE}],
        h \in [cache_control : {CacheControl}, etag : BOOLEAN,
               security_headers : BOOLEAN, frame_options : {FrameOptions},
               xss_protection : BOOLEAN]}

\* file systems in which /r/ii holds its own bytes or those of /r/i
HeaderFss ==
    {[MkFs(ki, "file") EXCEPT ![LocII].data = dii] :
        ki \in {"absent", "file"}, dii \in {"bytes_i", "bytes_ii"}}

InitHeaders ==
    /\ cfg \in HeaderConfigs
    /\ fs \in HeaderFss
    /\ phase = "idle"
    /\ req = NoReq
    /\ resp = NoResp
    /\ trace = NoTrace
    /\ filesRead = {}
    /\ mw = MwIdle
    /\ envelope = NoEnvelope
    /\ api = NoApi
    /\ AuxIdle

SpecHeaders == InitHeaders /\ [][NextStatic]_vars

\* the header is on the response
HasHeader(name) == \E h \in resp.headers : h[1] = name

\* the file the response was read from
ServedLoc == trace.reads[Len(trace.reads)].loc

\* C25: every successful static response carries the configured
\* Cache-Control value; it carries an ETag if and only if ETag generation is
\* enabled, and that ETag is the quoted hash of the full content of the file
\* served and of nothing else (equal content gives equal ETag); it carries
\* X-Content-Type-Options and X-Frame-Options if and only if security
\* headers are enabled, and X-XSS-Protection if and only if both security
\* headers and XSS protection are enabled.
C25_StaticResponseHeaders ==
    (phase = "responded" /\ resp.status = 200) =>
        /\ <<"cache-control", cfg.cache_control>> \in resp.headers
        /\ \A h1 \in resp.headers : \A h2 \in resp.headers :
              h1[1] = h2[1] => h1 = h2
        /\ HasHeader("etag") <=> cfg.etag
        /\ cfg.etag =>
              /\ <<"etag", <<"\"", [siphash |-> fs[ServedLoc].data], "\"">>>>
                    \in resp.headers
              /\ \A n \in {n_i, n_ii} :
                    LET other == serve_file(cfg, fs, Join(cfg.root, n)) IN
                    (other.ok /\ other.response.body = resp.body) =>
                        \A h \in other.response.headers :
                            h[1] = "etag" => h \in resp.headers
        /\ HasHeader("x-content-type-options") <=> cfg.security_headers
        /\ HasHeader("x-frame-options") <=> cfg.security_headers
        /\ HasHeader("x-xss-protection") <=>
              (cfg.security_headers /\ cfg.xss_protection)

\* C25 witness: XSS protection is on and the security headers are off, ETags
\* are on; /r/ii, which holds the bytes of /r/i, was served
C25_Witness ==
    /\ phase = "responded" /\ resp.status = 200
    /\ cfg.etag /\ ~cfg.security_headers /\ cfg.xss_protection
    /\ ServedLoc = LocII /\ fs[LocI].kind = "file"
    /\ fs[LocI].data = fs[LocII].data


(***************************************************************************)
\* the locations that hold a regular file after the step and did not hold
\* that file with these bytes before it
FilesWritten ==
    {l \in DOMAIN fs' :
        /\ fs'[l].kind = "file"
        /\ l \notin DOMAIN fs \/ fs[l] # fs'[l]}

\* the step is a call of upload_file
UploadStep == ~api.called /\ api'.called /\ api'.handler = "upload"

\* C27: for every filename supplied in the "file" field, a successful
\* upload writes exactly one file, a direct child of <static-root>/uploads
\* that holds the bytes of the first "file" field: the sanitized name has no
\* path separator, an upload named "." or ".." writes no file at all, and
\* fields after the first "file" field are never written. An upload that
\* fails leaves every file as it was.
C27_UploadWritesOneChild ==
    [][UploadStep =>
        LET form == api'.input.form
            first == CHOOSE k \in 1..Len(form) :
                        /\ form[k].name = "file"
                        /\ \A j \in 1..(k - 1) : form[j].name # "file"
        IN  /\ api'.result.ok =>
                  /\ \E l \in DOMAIN fs' :
                        /\ FilesWritten \subseteq {l}
                        /\ Len(l) = Len(LocUploads) + 1
                        /\ SubSeq(l, 1, Len(LocUploads)) = LocUploads
                        /\ ~Contains(l[Len(l)], "/")
                        /\ l[Len(l)] \notin {<<".">>, <<".", ".">>}
                        /\ fs'[l] = [kind |-> "file", data |-> form[first].data]
                  /\ \A l \in DOMAIN fs' \ FilesWritten :
                        l \in DOMAIN fs /\ fs[l].kind = "file" => fs'[l] = fs[l]
            /\ ~api'.result.ok => FilesWritten = {}
            /\ \A l \in DOMAIN fs :
                  Len(l) <= Len(LocUploads) /\ fs[l].kind = "file" =>
                      fs'[l] = fs[l]
    ]_vars

\* C27 witness: a form with two "file" fields, the first named "/a", was
\* uploaded: <root>/uploads/a holds the first field's bytes and /a is as
\* it was
C27_Witness ==
    /\ api.called /\ api.handler = "upload" /\ api.result.ok
    /\ Len(api.input.form) = 2
    /\ api.input.form[1].name = "file" /\ api.input.form[2].name = "file"
    /\ api.input.form[1].file_name = Some(<<"/", "a">>)
    /\ api.input.form[1].data # api.input.form[2].data
    /\ fs[LocUploadsA] = [kind |-> "file", data |-> api.input.form[1].data]
    /\ fs[LocOutsideA].data = "bytes_outside"

\* C28: every configuration accepted by Config::validate has a non-empty
\* database.url, so server::start always constructs the database probe (or
\* fails to start), and a running server loaded through
\* Config::load_from_file never reports the database dependency as
\* "disabled" in a health response.
C28_DatabaseNeverDisabled ==
    /\ (boot.loaded /\ boot.result.ok) => boot.result.value.database_url # <<>>
    /\ (boot.loaded /\ boot.serving) =>
          /\ boot.database
          /\ (api.called /\ api.handler = "health") =>
                /\ api.result.ok
                /\ api.result.value.body.data.value.checks.database
                      \in {"healthy", "unhealthy"}

\* C28 witness: the file has no database.url, the environment gives one;
\* the server runs and a health response reports the database unhealthy
C28_Witness ==
    /\ boot.loaded /\ boot.serving
    /\ boot.file.config.database_url = <<>>
    /\ api.called /\ api.handler = "health" /\ ~api.input.probe_ok
    /\ api.result.value.body.data.value.checks.database = "unhealthy"

\* the configuration load_from_file was called on, after the overrides the
\* environment asks for: the port if the value is a number that fits 16
\* bits, host and the two URLs as given
AfterOverrides ==
    LET c == boot.file.config
        e == boot.env
    IN  [port |-> IF ~e.port.some THEN c.port
                  ELSE IF e.port.value = <<"0">> THEN 0
                  ELSE IF e.port.value = <<"9">> THEN 9
                  ELSE c.port,
         host |-> IF e.host.some THEN e.host.value ELSE c.host,
         database_url |-> IF e.database_url.some THEN e.database_url.value
                          ELSE c.database_url,
         redis_url |-> IF e.redis_url.some THEN e.redis_url.value
                       ELSE c.redis_url,
         static_root |-> c.static_root]

\* C29: Config::load_from_file validates the configuration after applying
\* the environment overrides: whenever it returns Ok, the configuration
\* returned is the one after the overrides and has port # 0 and non-empty
\* host, database.url and redis.url (and it returns Ok for every such
\* configuration); a CONTAINER_CODES_SERVER_PORT value that does not parse
\* as a port leaves the file's port unchanged.
C29_ValidatedAfterOverrides ==
    (boot.loaded /\ boot.file.kind = "toml") =>
        LET valid == /\ AfterOverrides.port # 0
                     /\ AfterOverrides.host # <<>>
                     /\ AfterOverrides.database_url # <<>>
                     /\ AfterOverrides.redis_url # <<>>
        IN  /\ boot.result.ok <=> valid
            /\ boot.result.ok => boot.result.value = AfterOverrides
            /\ (boot.result.ok /\ boot.env.port.some
                    /\ boot.env.port.value \in {<<"x">>, <<"6", "5", "5", "3", "6">>})
                  => boot.result.value.port = boot.file.config.port

\* C29 witness: the port in the environment is 65536, the database URL
\* comes from the environment only; the load succeeded with the file's port
C29_Witness ==
    /\ boot.loaded /\ boot.result.ok
    /\ boot.env.port = Some(<<"6", "5", "5", "3", "6">>)
    /\ boot.file.config.database_url = <<>>
    /\ boot.env.database_url = Some(<<"u">>)
    /\ boot.result.value.port = 8080

MaxHealthRequests == 4

InitHealth == InitApi

\* one request to GET /api/health: the handler runs as HealthCheck does,
\* and the probe outcome and the response are appended to the history
HealthRequest(probe_ok, uuid) ==
    /\ Len(hist) < MaxHealthRequests
    /\ hist' = Append(hist, [probe_ok |-> probe_ok,
                             result |-> health_check(cfg.database, probe_ok, uuid)])
    /\ UNCHANGED <<conn, vcn, page, auxVars, cfg, fs, staticVars, mw, envelope, api>>

NextHealth == \E ok \in BOOLEAN, u \in UuidStrings : HealthRequest(ok, u)

SpecHealth == InitHealth /\ [][NextHealth]_vars

\* the database status reported by the k-th response
DatabaseStatus(k) == hist[k].result.value.body.data.value.checks.database

\* C24: over any sequence of health requests and probe outcomes, the
\* database status of each response reflects only the probe made for that
\* request: "healthy" on probe success, "unhealthy" on probe failure,
\* "disabled" when no probe is configured, whatever the earlier requests
\* and their probes were.
C24_StatusOfOwnProbe ==
    \A k \in 1..Len(hist) :
        /\ hist[k].result.ok
        /\ DatabaseStatus(k) =
              IF ~cfg.database THEN "disabled"
              ELSE IF hist[k].probe_ok THEN "healthy" ELSE "unhealthy"

\* C24 witness: a failed probe, then a successful one, then a failed one,
\* each reported as such
C24_Witness ==
    /\ Len(hist) >= 3 /\ cfg.database
    /\ ~hist[1].probe_ok /\ DatabaseStatus(1) = "unhealthy"
    /\ hist[2].probe_ok /\ DatabaseStatus(2) = "healthy"
    /\ ~hist[3].probe_ok /\ DatabaseStatus(3) = "unhealthy"

(***************************************************************************)
(* PaginatedResponse::new: shared/src/types.rs.                            *)
(* Numbers are sequences of 16-bit limbs, most significant first: a u32    *)
(* has two limbs and a u64 four.                                           *)
(***************************************************************************)
\* the number of values of a limb
LimbBase == 65536

\* u32 addition: the wrapped sum and whether it overflowed
add_u32(a, b) ==
    LET lo == a[2] + b[2]
        hi == a[1] + b[1] + (lo \div LimbBase)
    IN  [value |-> <<hi % LimbBase, lo % LimbBase>>, overflow |-> hi >= LimbBase]

\* total as u32: the low 32 bits
u64_as_u32(x) == <<x[3], x[4]>>

\* (variant that saturates instead of truncating)
u64_as_u32_saturating(x) ==
    IF x[1] # 0 \/ x[2] # 0 THEN <<LimbBase - 1, LimbBase - 1>> ELSE <<x[3], x[4]>>

\* a < b for two u32
lt_u32(a, b) == a[1] < b[1] \/ (a[1] = b[1] /\ a[2] < b[2])

\* PaginatedResponse::new. With overflow checks (a debug build) an
\* overflowing offset + limit panics; without them (a release build) it
\* wraps.
PaginatedResponse_new(items, total, limit, offset, overflow_checks) ==
    LET sum == add_u32(offset, limit) IN
    IF sum.overflow /\ overflow_checks
    THEN [panicked |-> TRUE]
    ELSE [panicked |-> FALSE,
          value |-> [items |-> items, total |-> total, limit |-> limit,
                     offset |-> offset,
                     has_next |-> lt_u32(sum.value, u64_as_u32(total))]]

\* u32 arguments: 0, 1, 10, 2^16, 2^31 and 2^32 - 1
U32Values ==
    {<<0, 0>>, <<0, 1>>, <<0, 10>>, <<1, 0>>, <<32768, 0>>, <<65535, 65535>>}

\* u64 totals: 0, 1, 11, 2^32 - 1, 2^32, 2^32 + 11 and 2^64 - 1
U64Values ==
    {<<0, 0, 0, 0>>, <<0, 0, 0, 1>>, <<0, 0, 0, 11>>, <<0, 0, 65535, 65535>>,
     <<0, 1, 0, 0>>, <<0, 1, 0, 11>>, <<65535, 65535, 65535, 65535>>}

InitPage == InitRequestId

PaginatedNew(total, limit, offset, overflow_checks) ==
    /\ ~page.built
    /\ page' = [built |-> TRUE, total |-> total, limit |-> limit, offset |-> offset,
                output |-> PaginatedResponse_new("items", total, limit, offset,
                                                 overflow_checks)]
    /\ UNCHANGED <<conn, vcn, hist, auxVars, cfg, fs, staticVars, mw, envelope, api>>

PaginatedDrop ==
    /\ page.built
    /\ page' = NoPage
    /\ UNCHANGED <<conn, vcn, hist, auxVars, cfg, fs, staticVars, mw, envelope, api>>

NextPage ==
    \/ \E total \in U64Values, limit \in U32Values, offset \in U32Values,
          overflow_checks \in BOOLEAN :
           PaginatedNew(total, limit, offset, overflow_checks)
    \/ PaginatedDrop

SpecPage == InitPage /\ [][NextPage]_vars

\* offset + limit < total, as numbers: the sum has three limbs
MoreItemsFollow ==
    LET lo == page.offset[2] + page.limit[2]
        hi == page.offset[1] + page.limit[1] + (lo \div 65536)
        sum == <<0, hi \div 65536, hi % 65536, lo % 65536>>
        t == page.total
    IN  \E k \in 1..4 :
            /\ sum[k] < t[k]
            /\ \A j \in 1..(k - 1) : sum[j] = t[j]

\* C30 (as claimed): PaginatedResponse::new sets has_next to true if and
\* only if offset + limit < total, for all u32 offset and limit and all u64
\* total, totals above 2^32 - 1 and sums that exceed the u32 range included.
C30_HasNextIffMoreItems ==
    page.built =>
        /\ ~page.output.panicked
        /\ page.output.value.has_next <=> MoreItemsFollow

\* C10: health_check reports "healthy" exactly when every recorded status is
\* "healthy" or "disabled" and "unhealthy" otherwise, and it always returns
\* success, also when the database probe failed.
C10_HealthAggregate ==
    (api.called /\ api.handler = "health") =>
        /\ api.result.ok
        /\ api.response.status = 200
        /\ api.response.body.data.some /\ ~api.response.body.error.some
        /\ LET hs == api.response.body.data.value IN
            /\ hs.status \in {"healthy", "unhealthy"}
            /\ hs.status = "healthy"
                 <=> \A k \in DOMAIN hs.checks : hs.checks[k] \in {"healthy", "disabled"}
            /\ hs.checks.database =
                 (IF ~cfg.database THEN "disabled"
                  ELSE IF api.input.probe_ok THEN "healthy" ELSE "unhealthy")

\* C10 witness: the database probe failed, the handler returned success and
\* the payload says "unhealthy".
C10_Witness ==
    /\ api.called /\ api.handler = "health"
    /\ cfg.database /\ ~api.input.probe_ok
    /\ api.result.ok /\ api.response.status = 200
    /\ api.response.body.data.value.status = "unhealthy"

====
